---- MODULE Spec2Model ----
(***************************************************************************)
(* The Windows WebView of WorldWind Java: the message pump of the browser  *)
(* UI thread (WebViewControl.cpp), the WebViewWindow instance it drives    *)
(* (WebViewWindow.cpp), the host-facing JNI entry points                   *)
(* (WindowsWebViewJNI.cpp) and the part of the WebBrowser control the      *)
(* instance talks to (document load, view change, travel log).             *)
(*                                                                         *)
(* The window procedures are state transformers over a bundle              *)
(*   S = [wv, eng, q, gh]                                                  *)
(* (instance fields, browser control, posted-message queue, history), so   *)
(* that a handler that calls another one is the composition of the two.    *)
(***************************************************************************)
EXTENDS Integers, Sequences, FiniteSets, TLC

VARIABLES wv, eng, queue, sent, ui, host, gh, ctl, call

vars == <<wv, eng, queue, sent, ui, host, gh, ctl, call>>

-----------------------------------------------------------------------------
(* Bounds of the model *)

\* Host API calls that post or send a message.
MaxPosts == 2
\* The same, in the runs that also follow the consumer and failing captures.
MaxCapturePosts == 1
\* The same, in the runs that follow one content load through its captures.
MaxLoadPosts == 1
\* Events the browser control raises by itself (view changes, link navigations).
MaxEvents == 1
\* Captures of one run in which a GDI call fails.
MaxFailures == 1
\* Times the consumer polls the update time and finds a new one.
MaxReads == 1
\* Host API calls and control events of the runs that follow a navigation
\* session from one idle state of the UI thread to the next.
MaxNavPosts == 5
MaxNavEvents == 1

-----------------------------------------------------------------------------
(* Message identifiers, WebViewWindow.h *)

WM_APP == 32768
WM_SIZE == 5
WM_MOUSEMOVE == 512

WM_SET_HTML == WM_APP + 0
WM_GO_BACK == WM_APP + 2
WM_GO_FORWARD == WM_APP + 3
WM_WEBVIEW_SET_BACKGROUND_COLOR == WM_APP + 10
WM_WEBVIEW_SET_RESOURCE_RESOLVER == WM_APP + 11
WM_WEBVIEW_SET_ADVISE == WM_APP + 12
WM_WEBVIEW_SET_MIN_CONTENT_SIZE == WM_APP + 13
WM_WEBVIEW_HIPRIORITY_LAST == WM_WEBVIEW_SET_ADVISE
WM_WEBVIEW_CAPTURE == WM_APP + 14

DEFAULT_MIN_CONTENT_WIDTH == 300
DEFAULT_MIN_CONTENT_HEIGHT == 100
DEFAULT_BASE_URL == "about:blank"

\* GetSystemMetrics(SM_CXVSCROLL), GetSystemMetrics(SM_CXHSCROLL)
ScrollbarSize == 17

NULL == "NULL"

-----------------------------------------------------------------------------
(* Values the model draws its inputs from *)

Htmls == {"h1", "h2"}
Resolvers == {"r1"}
Urls == {"u1", "u2"}
Listeners == {"l1"}
\* Sizes a host passes to setMinContentSize (0 selects the default).
MinSizes == {<<0, 0>>, <<400, 400>>}
\* Milliseconds by which GetTickCount advances from one capture to the next.
Ticks == {1}
\* Natural (unconstrained) scroll extent of every document of the model.
NaturalExtent == 100

\* The moniker that WM_SET_HTML carries: the HTML buffer and its base URL.
Moniker(html, base) == [html |-> html, base |-> base]
NoMoniker == Moniker(NULL, NULL)

\* The base URL setHTMLStringWithResourceResolver builds for a resolver.
WebViewBaseUrl == "webview://id/"

\* A captured bitmap: the document IViewObject::Draw rendered and, as history,
\* the ordinal of the capture that stored it, the content of the last setHtml
\* message handled before it, and how far the load of that content was:
\* "started" when the message has been handled and no other load or
\* navigation has begun since, "done" when the control has also finished
\* loading that content, "none" otherwise.
Bitmap(doc, cap, html, load) ==
    [doc |-> doc, cap |-> cap, html |-> html, load |-> load]
NoBits == Bitmap(NULL, 0, NULL, "none")

\* A document of the control: what it renders and its location URL.
Doc(doc, loc) == [doc |-> doc, loc |-> loc]
NoDoc == Doc(NULL, NULL)
BlankDoc == Doc("blank", DEFAULT_BASE_URL)

\* History: the control and the saved list as they were when a goBack message
\* was handled on loaded, original content (valid until the document changes).
NoSnap == [valid |-> FALSE, eng |-> NULL, saved |-> <<>>]

\* A message of the thread queue. seq is the ordinal of the host call that
\* posted it (0 for a message the UI thread posts to itself).
Msg(message, arg, seq) == [message |-> message, arg |-> arg, seq |-> seq]

-----------------------------------------------------------------------------
(* The posted-message queue and the pump's dequeue, WebViewControl.cpp *)

RemoveAt(q, i) == SubSeq(q, 1, i - 1) \o SubSeq(q, i + 1, Len(q))

\* PeekMessage(msg, NULL, lo, hi, PM_REMOVE): the index of the first queued
\* message whose identifier lies in lo..hi, 0 when there is none.
PeekMessage(q, lo, hi) ==
    LET hits == {i \in 1..Len(q) : q[i].message >= lo /\ q[i].message <= hi}
    IN  IF hits = {} THEN 0 ELSE CHOOSE i \in hits : \A j \in hits : i <= j

\* static GetMessage(MSG*): high priority first, then a capture, then anything.
GetMessage(q) ==
    LET high == PeekMessage(q, 0, WM_WEBVIEW_HIPRIORITY_LAST)
        low  == PeekMessage(q, WM_WEBVIEW_CAPTURE, WM_WEBVIEW_CAPTURE)
    IN  IF high # 0 THEN high
        ELSE IF low # 0 THEN low
        ELSE IF q # <<>> THEN 1
        ELSE 0

\* The posted messages a thread's queue can hold (the limit of Windows), or
\* the smaller limit of a run that sets one.
MessageQueueLimit == 10000
QueueLimit(S) ==
    IF "gh" \in DOMAIN S /\ "queue" \in DOMAIN S.gh.lim
    THEN S.gh.lim.queue ELSE MessageQueueLimit

\* PostMessage to a window of the UI thread: the message is appended to the
\* queue; the call fails, and posts nothing, when the queue is full.
PostMessage(S, m) ==
    IF Len(S.q) >= QueueLimit(S) THEN S ELSE [S EXCEPT !.q = Append(@, m)]

-----------------------------------------------------------------------------
(* The WebBrowser control: the displayed document, the load in progress and   *)
(* the travel log (back entries, the current entry, forward entries).         *)

\* ITravelLogStg::RemoveEntry on every entry: all but the current entry go.
ClearTravelLog(S) == [S EXCEPT !.eng.back = <<>>, !.eng.fwd = <<>>]

\* IEnumTravelLogEntry over TLEF_ABSOLUTE, keeping the entries with a URL: the
\* control fills the current entry's URL only when it navigates away from it.
EnumEntries(S) == S.eng.back \o S.eng.fwd

\* ITravelLogStg::CreateEntry(url, title, NULL, FALSE, NULL): insert after the
\* current entry.
CreateEntry(S, url) == [S EXCEPT !.eng.fwd = <<url>> \o @]

\* IWebBrowser2::get_LocationURL
LocationURL(S) == S.eng.cur.loc

\* DISPID_BEFORENAVIGATE2
BeforeNavigate2(S) ==
    [S EXCEPT !.wv.originalContentLoaded = FALSE,
              !.gh.loadDone = NULL, !.gh.away = TRUE, !.gh.snap = NoSnap]

\* The control starts a navigation: it raises BeforeNavigate2 and loads.
Navigate(S, url, kind) ==
    LET T == BeforeNavigate2(S)
    IN  [T EXCEPT !.eng.pending = Doc(url, url), !.eng.kind = kind]

\* IWebBrowser2::GoBack, IWebBrowser2::GoForward: fail without an entry.
CanGoBack(S) == S.eng.back # <<>>
GoBack(S) ==
    IF CanGoBack(S) THEN Navigate(S, S.eng.back[Len(S.eng.back)], "back") ELSE S
GoForward(S) ==
    IF S.eng.fwd # <<>> THEN Navigate(S, Head(S.eng.fwd), "fwd") ELSE S

\* IPersistMoniker::Load of the instance's moniker.
Load(S) ==
    [S EXCEPT !.eng.pending = Doc(S.wv.htmlContent.html, S.wv.htmlContent.base),
              !.eng.kind = "moniker"]

\* The load in progress finishes: the document is displayed and, for a real
\* navigation, the travel log moves.
FinishLoad(S) ==
    LET e == S.eng
        log == CASE e.kind = "nav" ->
                      [back |-> IF e.log = NULL THEN e.back ELSE Append(e.back, e.log),
                       fwd |-> <<>>, log |-> e.pending.loc]
                 [] e.kind = "back" ->
                      [back |-> SubSeq(e.back, 1, Len(e.back) - 1),
                       fwd |-> IF e.log = NULL THEN e.fwd ELSE <<e.log>> \o e.fwd,
                       log |-> e.pending.loc]
                 [] e.kind = "fwd" ->
                      [back |-> IF e.log = NULL THEN e.back ELSE Append(e.back, e.log),
                       fwd |-> IF e.fwd = <<>> THEN <<>> ELSE Tail(e.fwd),
                       log |-> e.pending.loc]
                 [] OTHER -> [back |-> e.back, fwd |-> e.fwd, log |-> e.log]
    IN  [S EXCEPT !.eng = [cur |-> e.pending, pending |-> NoDoc, kind |-> NULL,
                           back |-> log.back, fwd |-> log.fwd, log |-> log.log],
                  !.gh.loadDone = IF e.kind = "moniker" THEN e.pending.doc ELSE NULL,
                  !.gh.snap = NoSnap]

-----------------------------------------------------------------------------
(* WebViewWindow.cpp: the handlers of the instance's message map *)

\* A ScheduleCapture that does not look at captureScheduled.
ScheduleCapture_NoScheduledTest(S) ==
    IF S.wv.needToCapture \/ S.wv.alwaysCapture
    THEN [S EXCEPT !.wv.captureScheduled = TRUE,
                   !.q = Append(@, Msg(WM_WEBVIEW_CAPTURE, NULL, 0)),
                   !.wv.needToCapture = FALSE]
    ELSE S

\* WebViewWindow::ScheduleCapture
ScheduleCapture(S) ==
    IF S.wv.captureScheduled THEN S
    ELSE IF S.wv.needToCapture \/ S.wv.alwaysCapture
         THEN [PostMessage(S, Msg(WM_WEBVIEW_CAPTURE, NULL, 0))
                   EXCEPT !.wv.captureScheduled = TRUE,
                          !.wv.needToCapture = FALSE]
         ELSE S

\* WebViewWindow::SetHTML. hr is the result of the first IPersistMoniker::Load,
\* hr2 the result of the retry with the default base URL.
SetHTML(S, hr, hr2) ==
    LET first == IF S.wv.htmlContent = NoMoniker THEN "E_FAIL" ELSE hr
        reset == [S EXCEPT !.wv.htmlContent.base = DEFAULT_BASE_URL]
        T == IF first = "S_OK" THEN Load(S)
             ELSE IF first = "S_FALSE"
                  THEN (IF hr2 = "S_OK" THEN Load(reset) ELSE reset)
                  ELSE S
    IN  [T EXCEPT !.wv.originalContentLoaded = TRUE]

\* WebViewWindow::OnSetHTML
OnSetHTML(S, moniker, hr, hr2) ==
    LET T == [S EXCEPT !.wv.htmlContent = moniker,
                       !.gh.loadDone = NULL, !.gh.away = FALSE]
    IN  ClearTravelLog(SetHTML(T, hr, hr2))

\* The instance shows the content of the last setHtml message, loaded, and
\* has not navigated away from it.
ShowsLoaded(S) ==
    /\ S.wv.htmlContent # NoMoniker /\ ~S.gh.away
    /\ S.gh.loadDone = S.wv.htmlContent.html
    /\ S.eng.pending = NoDoc

\* The loop of OnGoBack that copies the travel log: an entry is skipped when
\* its URL equals the URL of the entry saved before it.
RECURSIVE SaveEntries(_, _)
SaveEntries(entries, saved) ==
    IF entries = <<>> THEN saved
    ELSE IF saved # <<>> /\ saved[Len(saved)] = Head(entries)
         THEN SaveEntries(Tail(entries), saved)
         ELSE SaveEntries(Tail(entries), Append(saved, Head(entries)))

\* OnGoBack without the test of originalContentLoaded.
OnGoBack_NoOriginalTest(S, hr, hr2) ==
    IF CanGoBack(S) THEN GoBack(S)
    ELSE LET copied == SaveEntries(EnumEntries(S), <<>>)
             saved == IF copied = <<>> THEN <<LocationURL(S)>> ELSE copied
         IN  SetHTML([S EXCEPT !.wv.savedTravelLog = saved,
                               !.wv.mustClearTravelLog = TRUE], hr, hr2)

\* OnGoBack without the savedTravelLog.clear() before its loop.
OnGoBack_NoClear(S, hr, hr2) ==
    IF S.wv.originalContentLoaded THEN S
    ELSE IF CanGoBack(S) THEN GoBack(S)
    ELSE LET copied == SaveEntries(EnumEntries(S), S.wv.savedTravelLog)
             saved == IF copied = <<>> THEN <<LocationURL(S)>> ELSE copied
         IN  SetHTML([S EXCEPT !.wv.savedTravelLog = saved,
                               !.wv.mustClearTravelLog = TRUE], hr, hr2)

\* WebViewWindow::OnGoBack
OnGoBack(S, hr, hr2) ==
    IF S.wv.originalContentLoaded THEN S
    ELSE IF CanGoBack(S) THEN GoBack(S)
    ELSE LET copied == SaveEntries(EnumEntries(S), <<>>)
             saved == IF copied = <<>> THEN <<LocationURL(S)>> ELSE copied
         IN  SetHTML([S EXCEPT !.wv.savedTravelLog = saved,
                               !.wv.mustClearTravelLog = TRUE], hr, hr2)

\* The loop of OnGoForward that restores the saved entries, last one first.
RECURSIVE RestoreEntries(_, _, _)
RestoreEntries(S, saved, i) ==
    IF i < 1 THEN S
    ELSE RestoreEntries(CreateEntry(S, saved[i]), saved, i - 1)

\* OnGoForward with the loop walking the saved list first entry first.
OnGoForward_FirstEntryFirst(S) ==
    IF S.wv.originalContentLoaded
    THEN LET saved == S.wv.savedTravelLog
             T == RestoreEntries(ClearTravelLog(S),
                                 [i \in 1..Len(saved) |-> saved[Len(saved) + 1 - i]],
                                 Len(saved))
         IN  GoForward([T EXCEPT !.wv.mustClearTravelLog = FALSE])
    ELSE GoForward(S)

\* WebViewWindow::OnGoForward
OnGoForward(S) ==
    IF S.wv.originalContentLoaded
    THEN LET T == RestoreEntries(ClearTravelLog(S), S.wv.savedTravelLog,
                                 Len(S.wv.savedTravelLog))
         IN  GoForward([T EXCEPT !.wv.mustClearTravelLog = FALSE])
    ELSE GoForward(S)

\* WebViewWindow::OnSetAdvise
OnSetAdvise(S, sink) == [S EXCEPT !.wv.adviseSink = sink]

\* WebViewWindow::OnSetResourceResolver
OnSetResourceResolver(S, resolver) == [S EXCEPT !.wv.resourceResolver = resolver]

\* WebViewWindow::OnSetBackgroundColor
OnSetBackgroundColor(S, color) == [S EXCEPT !.wv.backgroundColor = color]

\* WebViewWindow::OnFrameSizeChanged: DetermineScrollBars only restyles the body.
OnFrameSizeChanged(S) == S

\* WebViewWindow::OnSimulateInput for a mouse move
OnSimulateInput(S, point) == [S EXCEPT !.wv.lastInputPoint = point]

\* WebViewWindow::OnSetMinContentSize
OnSetMinContentSize(S, width, height) ==
    ScheduleCapture(
        [S EXCEPT !.wv.minContentWidth =
                      IF width > 0 THEN width ELSE DEFAULT_MIN_CONTENT_WIDTH,
                  !.wv.minContentHeight =
                      IF height > 0 THEN height ELSE DEFAULT_MIN_CONTENT_HEIGHT,
                  !.wv.contentLoadID = @ + 1])

\* WebViewWindow::OnViewChange (IAdviseSink)
OnViewChange(S) == [S EXCEPT !.wv.needToCapture = TRUE]

\* The scroll extent the document reports when the window is `size` wide (high).
ScrollExtent(size) == IF size > NaturalExtent THEN size ELSE NaturalExtent

\* WebViewWindow::DetermineContentSize
DetermineContentSize(S) ==
    [S EXCEPT !.wv.contentWidth = ScrollExtent(S.wv.minContentWidth) + ScrollbarSize,
              !.wv.contentHeight = ScrollExtent(S.wv.minContentHeight) + ScrollbarSize]

\* WebViewWindow::DetermineContentURL
DetermineContentURL(S) ==
    [S EXCEPT !.wv.contentURL =
                  IF S.wv.originalContentLoaded THEN NULL ELSE LocationURL(S)]

\* WebViewWindow::FindLinks: the link rectangles of the displayed document,
\* their URLs resolved by the resolver the instance holds.
FindLinks(S) ==
    [S EXCEPT !.wv.links = [doc |-> S.eng.cur.doc, resolver |-> S.wv.resourceResolver]]

-----------------------------------------------------------------------------
(* Capturing the view, WebViewWindow.cpp *)

\* Results of the GDI calls of CaptureBitMap: all succeed, CreateCompatibleDC
\* or CreateCompatibleBitmap fails, CreateDIBSection fails.
GdiResults == {"ok", "noDC", "noDIB"}

\* A CaptureBitMap that stores the pixels it stored before.
CaptureBitMap_StalePixels(S, gdi) ==
    [S EXCEPT !.gh.capSeq = @ + 1,
              !.wv.captureBits =
                  Bitmap(S.wv.captureBits.doc, S.gh.capSeq + 1, S.wv.htmlContent.html,
                         IF S.wv.htmlContent # NoMoniker /\ ~S.gh.away
                            /\ S.gh.loadDone = S.wv.htmlContent.html
                         THEN "done" ELSE "none")]

\* WebViewWindow::CaptureBitMap
CaptureBitMap(S, gdi) ==
    LET n == S.gh.capSeq + 1
        T == [S EXCEPT !.gh.capSeq = n,
                       !.gh.nFail = IF gdi = "ok" THEN @ ELSE @ + 1]
        load == IF S.wv.htmlContent = NoMoniker \/ S.gh.away THEN "none"
                ELSE IF S.gh.loadDone = S.wv.htmlContent.html THEN "done"
                ELSE "started"
    IN  CASE gdi = "noDC" -> T
          [] gdi = "noDIB" -> [T EXCEPT !.wv.captureBits = NoBits]
          [] OTHER -> [T EXCEPT !.wv.captureBits =
                           Bitmap(S.eng.cur.doc, n, S.wv.htmlContent.html, load)]

\* WebViewWindow::CaptureWebView after CaptureBitMap, up to the notification:
\* the time stamp (GetTickCount has advanced by dt), the links, the metadata.
CaptureStamp(S, dt) ==
    LET T == FindLinks([S EXCEPT !.wv.updateTime = @ + dt,
                                 !.gh.stampCap = IF dt > 0 THEN S.gh.capSeq ELSE @])
    IN  IF T.wv.contentMetadataUpdateID # T.wv.contentLoadID
        THEN [DetermineContentSize(DetermineContentURL(T))
                  EXCEPT !.wv.contentMetadataUpdateID = T.wv.contentLoadID]
        ELSE T

\* WebViewWindow::CaptureWebView as one step
CaptureWebView(S, gdi, dt) == CaptureStamp(CaptureBitMap(S, gdi), dt)

\* HTML content with EMBED tags: of the documents of this model, the one
\* named "embedded".
ContainsEmbeddedContent(doc) == doc = "embedded"

\* WebViewWindow::OnDocumentComplete up to its CaptureWebView call
OnDocumentComplete(S) ==
    [S EXCEPT !.wv.alwaysCapture = ContainsEmbeddedContent(S.eng.cur.doc),
              !.wv.needToCapture = TRUE]

\* WebViewWindow::OnDocumentComplete after its CaptureWebView call
OnDocumentCompleteEnd(S) ==
    IF S.wv.mustClearTravelLog /\ ~S.wv.originalContentLoaded
    THEN [ClearTravelLog(S) EXCEPT !.wv.mustClearTravelLog = FALSE]
    ELSE S

\* WebViewWindow::Invoke(DISPID_DOCUMENTCOMPLETE) for the top-level frame, after
\* OnDocumentComplete and up to its own CaptureWebView call
InvokeDocumentComplete(S) ==
    IF S.wv.browserInitialized
    THEN [S EXCEPT !.wv.contentLoadID = @ + 1]
    ELSE [S EXCEPT !.wv.browserInitialized = TRUE]

\* The window procedure of the instance: the message map of WebViewWindow.h.
WndProc(S, m, hr, hr2) ==
    CASE m.message = WM_SET_HTML -> OnSetHTML(S, m.arg, hr, hr2)
      [] m.message = WM_GO_BACK -> OnGoBack(S, hr, hr2)
      [] m.message = WM_GO_FORWARD -> OnGoForward(S)
      [] m.message = WM_WEBVIEW_SET_BACKGROUND_COLOR -> OnSetBackgroundColor(S, m.arg)
      [] m.message = WM_WEBVIEW_SET_RESOURCE_RESOLVER -> OnSetResourceResolver(S, m.arg)
      [] m.message = WM_WEBVIEW_SET_ADVISE -> OnSetAdvise(S, m.arg)
      [] m.message = WM_WEBVIEW_SET_MIN_CONTENT_SIZE ->
             OnSetMinContentSize(S, m.arg[1], m.arg[2])
      [] m.message = WM_SIZE -> OnFrameSizeChanged(S)
      [] m.message = WM_MOUSEMOVE -> OnSimulateInput(S, m.arg)
      [] OTHER -> S

\* History of the dispatch of m, which took the instance from S to T; reloaded
\* tells whether the last goBack that saved the travel log and set the
\* must-clear flag got the original content loading again.
Track(S, m, T) ==
    [T EXCEPT !.gh.snap = IF m.message = WM_GO_BACK /\ ShowsLoaded(S)
                          THEN [valid |-> TRUE, eng |-> S.eng,
                                saved |-> S.wv.savedTravelLog]
                          ELSE NoSnap,
              !.gh.reloaded =
                  IF m.message = WM_GO_BACK /\ ~S.wv.originalContentLoaded
                     /\ ~CanGoBack(S)
                  THEN T.eng.kind = "moniker" /\ T.eng.pending # NoDoc
                  ELSE @]

\* MessageWndProc, WM_WEBVIEW_UPDATE: the pump sends it after every dispatch.
Update(S) == ScheduleCapture(S)

-----------------------------------------------------------------------------
(* The state after NewWebViewWindow: the constructor's field values, and the  *)
(* control created on "about:blank", which it is still loading.               *)

NoMsg == Msg(0, NULL, 0)

\* No call of a function of the protocol handler, of the link finder or of the
\* event translation is under way.
NoCall == [fn |-> NULL]

\* The controller as the runs of a single instance see it: the loop runs and
\* the live set holds that instance.
NoControl == [pc |-> "single"]

InitInstance(lim) ==
    /\ wv = [needToCapture |-> FALSE, alwaysCapture |-> FALSE,
             captureScheduled |-> FALSE, captureBits |-> NoBits, updateTime |-> 0,
             resourceResolver |-> NULL, adviseSink |-> NULL,
             htmlContent |-> NoMoniker, originalContentLoaded |-> FALSE,
             browserInitialized |-> FALSE,
             contentLoadID |-> 0, contentMetadataUpdateID |-> 0,
             contentWidth |-> 0, contentHeight |-> 0, contentURL |-> NULL,
             minContentWidth |-> DEFAULT_MIN_CONTENT_WIDTH,
             minContentHeight |-> DEFAULT_MIN_CONTENT_HEIGHT,
             savedTravelLog |-> <<>>, mustClearTravelLog |-> FALSE,
             backgroundColor |-> NULL, lastInputPoint |-> 0,
             links |-> [doc |-> NULL, resolver |-> NULL]]
    /\ eng = [cur |-> BlankDoc, pending |-> BlankDoc, kind |-> "create",
              back |-> <<>>, fwd |-> <<>>, log |-> NULL]
    /\ queue = <<>>
    /\ sent = NoMsg
    /\ ui = [stack |-> <<>>, inCallback |-> FALSE]
    /\ host = [pc |-> "run", seenTime |-> 0, stampSeen |-> 0, fresh |-> FALSE,
               tex |-> NoBits, texFor |-> 0]
    /\ gh = [lim |-> lim,
             nPosts |-> 0, nEvents |-> 0, seq |-> 0, capSeq |-> 0,
             nFail |-> 0, nReads |-> 0, stampCap |-> 0, loadDone |-> NULL,
             away |-> FALSE, snap |-> NoSnap, reloaded |-> FALSE]

InitState(lim) == InitInstance(lim) /\ ctl = NoControl /\ call = NoCall

Init == InitState([posts |-> MaxPosts, events |-> MaxEvents, fails |-> 0])

Cur == [wv |-> wv, eng |-> eng, q |-> queue, gh |-> gh]
Commit(S) == wv' = S.wv /\ eng' = S.eng /\ queue' = S.q /\ gh' = S.gh

\* Load results of IPersistMoniker::Load
LoadResults == {"S_OK", "S_FALSE", "E_FAIL"}

\* The steps of CaptureWebView that the UI thread takes one at a time.
CaptureSteps == <<"CaptureBitMap", "CaptureStamp", "CaptureReturn">>

-----------------------------------------------------------------------------
(* The browser UI thread: RunWebViewMessageLoop, WebViewControl.cpp *)

\* One turn of the loop for a posted message other than a capture: GetMessage,
\* DispatchMessage to the handler, then WM_WEBVIEW_UPDATE.
PumpMessage ==
    /\ ui.stack = <<>> /\ sent.message = 0
    /\ GetMessage(queue) # 0
    /\ LET i == GetMessage(queue)
           m == queue[i]
           S == [Cur EXCEPT !.q = RemoveAt(queue, i)]
       IN  /\ m.message # WM_WEBVIEW_CAPTURE
           /\ \E hr \in LoadResults, hr2 \in {"S_OK", "E_FAIL"} :
                  Commit(Update(Track(S, m, WndProc(S, m, hr, hr2))))
    /\ UNCHANGED <<sent, ui, host, ctl, call>>

\* The loop dequeues a capture message: OnCapture starts CaptureWebView.
PumpCapture ==
    /\ ui.stack = <<>> /\ sent.message = 0
    /\ GetMessage(queue) # 0
    /\ LET i == GetMessage(queue)
           m == queue[i]
       IN  /\ m.message = WM_WEBVIEW_CAPTURE
           /\ queue' = RemoveAt(queue, i)
           /\ ui' = [ui EXCEPT !.stack = CaptureSteps \o <<"OnCapture">>]
    /\ UNCHANGED <<wv, eng, sent, host, gh, ctl, call>>

\* A message sent by the host thread is handled inside the loop's PeekMessage
\* or GetMessage call: the loop body does not run, the sender resumes.
ReceiveSent ==
    /\ ui.stack = <<>> /\ sent.message # 0
    /\ Commit(WndProc(Cur, sent, "S_OK", "S_OK"))
    /\ sent' = NoMsg
    /\ host' = [host EXCEPT !.pc = "run"]
    /\ UNCHANGED <<ui, ctl, call>>

StepCaptureBitMap ==
    /\ ui.stack # <<>> /\ Head(ui.stack) = "CaptureBitMap"
    /\ \E gdi \in GdiResults :
          /\ gdi # "ok" => gh.nFail < gh.lim.fails
          /\ Commit(CaptureBitMap(Cur, gdi))
    /\ ui' = [ui EXCEPT !.stack = Tail(@)]
    /\ UNCHANGED <<sent, host, ctl, call>>

\* The stamp, the links and the metadata; then NotificationAdapter::OnViewChange
\* calls the listener, if one is bound.
StepCaptureStamp ==
    /\ ui.stack # <<>> /\ Head(ui.stack) = "CaptureStamp"
    /\ \E dt \in Ticks : Commit(CaptureStamp(Cur, dt))
    /\ ui' = [ui EXCEPT !.stack = Tail(@), !.inCallback = (wv.adviseSink # NULL)]
    /\ UNCHANGED <<sent, host, ctl, call>>

\* The listener returns, and CaptureWebView with it.
StepCaptureReturn ==
    /\ ui.stack # <<>> /\ Head(ui.stack) = "CaptureReturn"
    /\ ui' = [ui EXCEPT !.stack = Tail(@), !.inCallback = FALSE]
    /\ UNCHANGED <<wv, eng, queue, sent, host, gh, ctl, call>>

\* WebViewWindow::OnCapture after CaptureWebView, then WM_WEBVIEW_UPDATE.
StepOnCapture ==
    /\ ui.stack # <<>> /\ Head(ui.stack) = "OnCapture"
    /\ Commit(Update([Cur EXCEPT !.wv.captureScheduled = FALSE]))
    /\ ui' = [ui EXCEPT !.stack = Tail(@)]
    /\ UNCHANGED <<sent, host, ctl, call>>

\* The control finishes the load in progress and raises DocumentComplete for
\* the top-level frame: OnDocumentComplete starts its CaptureWebView.
DocumentComplete ==
    /\ ui.stack = <<>> /\ sent.message = 0
    /\ eng.pending # NoDoc
    /\ Commit(OnDocumentComplete(FinishLoad(Cur)))
    /\ ui' = [ui EXCEPT !.stack = CaptureSteps \o <<"DocumentCompleteEnd">>]
    /\ UNCHANGED <<sent, host, ctl, call>>

\* The rest of OnDocumentComplete, then the rest of Invoke, which captures
\* once more unless this was the load that initialises the control.
StepDocumentCompleteEnd ==
    /\ ui.stack # <<>> /\ Head(ui.stack) = "DocumentCompleteEnd"
    /\ Commit(InvokeDocumentComplete(OnDocumentCompleteEnd(Cur)))
    /\ ui' = [ui EXCEPT !.stack = IF wv.browserInitialized
                                   THEN CaptureSteps \o <<"Update">>
                                   ELSE <<"Update">>]
    /\ UNCHANGED <<sent, host, ctl, call>>

\* WM_WEBVIEW_UPDATE after the dispatch that delivered a control event.
StepUpdate ==
    /\ ui.stack # <<>> /\ Head(ui.stack) = "Update"
    /\ Commit(Update(Cur))
    /\ ui' = [ui EXCEPT !.stack = Tail(@)]
    /\ UNCHANGED <<sent, host, ctl, call>>

\* The displayed page changes by itself: IAdviseSink::OnViewChange.
ViewChange ==
    /\ ui.stack = <<>> /\ sent.message = 0
    /\ wv.browserInitialized /\ gh.nEvents < gh.lim.events
    /\ Commit(Update(OnViewChange([Cur EXCEPT !.gh.nEvents = @ + 1])))
    /\ UNCHANGED <<sent, ui, host, ctl, call>>

\* The user follows a link of the displayed page: BeforeNavigate2.
LinkNavigate ==
    /\ ui.stack = <<>> /\ sent.message = 0
    /\ wv.browserInitialized /\ gh.nEvents < gh.lim.events
    /\ \E url \in Urls :
          Commit(Update(Navigate([Cur EXCEPT !.gh.nEvents = @ + 1], url, "nav")))
    /\ UNCHANGED <<sent, ui, host, ctl, call>>

-----------------------------------------------------------------------------
(* The host thread: the JNI entry points of WindowsWebViewJNI.cpp *)

\* PostMessage of the messages of one API call, in order.
RECURSIVE PostAll(_, _)
PostAll(S, ms) ==
    IF ms = <<>> THEN S
    ELSE PostAll([PostMessage(S, Msg(Head(ms)[1], Head(ms)[2], S.gh.seq + 1))
                      EXCEPT !.gh.seq = @ + 1], Tail(ms))

HostPost(ms) ==
    /\ host.pc = "run" /\ gh.nPosts < gh.lim.posts
    /\ Commit(PostAll([Cur EXCEPT !.gh.nPosts = @ + 1], ms))
    /\ UNCHANGED <<sent, ui, host, ctl, call>>

\* SendMessage from the host thread: the caller waits for the handler.
HostSend(message, arg) ==
    /\ host.pc = "run" /\ gh.nPosts < gh.lim.posts
    /\ sent' = Msg(message, arg, 0)
    /\ host' = [host EXCEPT !.pc = "send"]
    /\ gh' = [gh EXCEPT !.nPosts = @ + 1]
    /\ UNCHANGED <<wv, eng, queue, ui, ctl, call>>

setHTMLString ==
    \E html \in Htmls :
        HostPost(<< <<WM_WEBVIEW_SET_RESOURCE_RESOLVER, NULL>>,
                    <<WM_SET_HTML, Moniker(html, DEFAULT_BASE_URL)>> >>)

setHTMLStringWithResourceResolver ==
    \E html \in Htmls, resolver \in Resolvers \cup {NULL} :
        IF resolver # NULL
        THEN HostPost(<< <<WM_WEBVIEW_SET_RESOURCE_RESOLVER, resolver>>,
                         <<WM_SET_HTML, Moniker(html, WebViewBaseUrl)>> >>)
        ELSE HostPost(<< <<WM_SET_HTML, Moniker(html, "")>> >>)

setMinContentSize ==
    \E size \in MinSizes :
        HostPost(<< <<WM_WEBVIEW_SET_MIN_CONTENT_SIZE, size>> >>)

goBack == HostPost(<< <<WM_GO_BACK, NULL>> >>)

goForward == HostPost(<< <<WM_GO_FORWARD, NULL>> >>)

sendEvent == HostPost(<< <<WM_MOUSEMOVE, 1>> >>)

addWindowUpdateObserver ==
    \E listener \in Listeners : HostPost(<< <<WM_WEBVIEW_SET_ADVISE, listener>> >>)

setBackgroundColor == HostSend(WM_WEBVIEW_SET_BACKGROUND_COLOR, "color")

\* MoveWindow sends WM_SIZE to the window of the UI thread.
setFrameSize == HostSend(WM_SIZE, NULL)

\* getUpdateTime, when it returns a time the consumer has not seen yet.
getUpdateTime ==
    /\ host.pc = "run" /\ wv.updateTime # host.seenTime
    /\ gh.nReads < MaxReads
    /\ host' = [host EXCEPT !.seenTime = wv.updateTime, !.fresh = TRUE,
                             !.stampSeen = gh.stampCap]
    /\ gh' = [gh EXCEPT !.nReads = @ + 1]
    /\ UNCHANGED <<wv, eng, queue, sent, ui, ctl, call>>

\* loadDisplayInGLTexture: WebViewWindow::CaptureToGLTexture, which the consumer
\* calls after it has seen a new update time.
loadDisplayInGLTexture ==
    /\ host.pc = "run" /\ host.fresh
    /\ IF wv.captureBits # NoBits
       THEN /\ host' = [host EXCEPT !.fresh = FALSE, !.tex = wv.captureBits,
                                    !.texFor = host.stampSeen]
            /\ wv' = [wv EXCEPT !.captureBits = NoBits]
       ELSE /\ host' = [host EXCEPT !.fresh = FALSE]
            /\ wv' = wv
    /\ UNCHANGED <<eng, queue, sent, ui, gh, ctl, call>>

-----------------------------------------------------------------------------
Next ==
    \/ PumpMessage \/ PumpCapture \/ ReceiveSent
    \/ StepCaptureBitMap \/ StepCaptureStamp \/ StepCaptureReturn \/ StepOnCapture
    \/ DocumentComplete \/ StepDocumentCompleteEnd \/ StepUpdate
    \/ ViewChange \/ LinkNavigate
    \/ setHTMLString \/ setHTMLStringWithResourceResolver \/ setMinContentSize
    \/ goBack \/ goForward \/ sendEvent \/ addWindowUpdateObserver
    \/ setBackgroundColor \/ setFrameSize

Spec == Init /\ [][Next]_vars

\* The same system with fewer host calls.
InitLoad == InitState([posts |-> MaxLoadPosts, events |-> MaxEvents, fails |-> 0])

SpecLoad == InitLoad /\ [][Next]_vars

\* The same system with fewer host calls, with captures whose GDI calls fail,
\* and with the consumer that polls the update time and uploads the bitmap.
InitCapture ==
    InitState([posts |-> MaxCapturePosts, events |-> MaxEvents, fails |-> MaxFailures])

NextCapture == Next \/ getUpdateTime \/ loadDisplayInGLTexture

SpecCapture == InitCapture /\ [][NextCapture]_vars

\* The same system on a navigation session: content loads, link navigations,
\* goBack and goForward, each host call made when the UI thread is idle.
InitNav == InitState([posts |-> MaxNavPosts, events |-> MaxNavEvents, fails |-> 0])

Idle == ui.stack = <<>> /\ queue = <<>>

NextNav ==
    \/ PumpMessage \/ PumpCapture
    \/ StepCaptureBitMap \/ StepCaptureStamp \/ StepCaptureReturn \/ StepOnCapture
    \/ DocumentComplete \/ StepDocumentCompleteEnd \/ StepUpdate
    \/ LinkNavigate
    \/ (Idle /\ setHTMLString)
    \/ (Idle /\ goBack)
    \/ (Idle /\ goForward)

SpecNav == InitNav /\ [][NextNav]_vars

-----------------------------------------------------------------------------
(* Properties of the message pump and of the host entry points *)

\* The ordinals of the host-posted messages of a queue (a capture message,
\* which the UI thread posts to itself, has ordinal 0).
HostSeqs(q) == {q[i].seq : i \in 1..Len(q)} \ {0}

\* C1: the pump dequeues a capture message only when no high-priority message
\* is pending: whenever the loop dequeues a capture message, the queue holds
\* no host-posted message (content, navigation, input, resolver, listener,
\* minimum-content-size message).
C1_CaptureOnlyWhenNoHostMessage ==
    [][PumpCapture => HostSeqs(queue) = {}]_vars

\* C2: messages posted by one host thread to one instance are handled in the
\* order they were posted: when the loop dequeues a host-posted message, every
\* host-posted message that stays in the queue was posted after it.
C2_HandledInPostOrder ==
    [][PumpMessage =>
          \A handled \in HostSeqs(queue) \ HostSeqs(queue') :
              \A waiting \in HostSeqs(queue') : waiting > handled]_vars

\* C3: setBackgroundColor and setFrameSize are posted: the host thread never
\* waits inside one of them for the UI thread to handle a message.
C3_ColourAndSizeArePosted == host.pc # "send"

\* C4: the host thread and the UI thread never block on each other: the host
\* thread never waits for the UI thread in a synchronous send while the UI
\* thread is inside the change-listener callback into the host runtime.
C4_NeverBlockOnEachOther == ~(host.pc = "send" /\ ui.inCallback)

-----------------------------------------------------------------------------
(* Properties of the captured bitmap *)

\* C5: whenever a consumer observes a new update time, the bitmap it then
\* reads under the bitmap mutex was written by the capture that stamped that
\* time or by a later capture, never by an earlier one.
C5_BitmapMatchesStamp == host.texFor > 0 => host.tex.cap >= host.texFor

\* C6 as stated: if a setHtml message is handled before a capture and no other
\* load intervenes, the bitmap of that capture shows the new content.
C6_CaptureShowsNewContent_Original ==
    wv.captureBits.load \in {"started", "done"} =>
        wv.captureBits.doc = wv.captureBits.html

\* C6: if a setHtml message is handled before a capture, no other load
\* intervenes, and the control has accepted and finished the load of the new
\* content when the capture runs, the bitmap of that capture shows the new
\* content, never the content displayed before the setHtml.
C6_CaptureShowsLoadedContent ==
    wv.captureBits.load = "done" => wv.captureBits.doc = wv.captureBits.html

\* A capture has stored the rendering of content that a setHtml message
\* brought and the control finished loading.
C6_Witness ==
    /\ wv.captureBits.load = "done"
    /\ wv.captureBits.doc \in Htmls
    /\ wv.captureBits.cap > 0

-----------------------------------------------------------------------------
(* Properties of the content size and of the resolver *)

\* The UI thread is blocked in GetMessage with nothing to wake it up but a new
\* host call or a change of the document.
Quiescent ==
    /\ ui.stack = <<>> /\ queue = <<>> /\ sent.message = 0
    /\ eng.pending = NoDoc

ShowsLoadedContent == ShowsLoaded(Cur)

\* C7: after setMinContentSize(w, h) with w, h > 0 on an instance showing
\* loaded content, the content size is redetermined without a further host
\* call or document change: once the UI thread has nothing left to do, the
\* content size is at least the minimum size the host has set.
C7_ContentSizeFollowsMinSize ==
    (/\ Quiescent /\ ShowsLoadedContent
     /\ wv.minContentWidth > DEFAULT_MIN_CONTENT_WIDTH
     /\ wv.minContentHeight > DEFAULT_MIN_CONTENT_HEIGHT)
    => (/\ wv.contentWidth >= wv.minContentWidth
        /\ wv.contentHeight >= wv.minContentHeight)

\* The message the loop dequeues next.
NextMessage == queue[GetMessage(queue)]

\* C10: after content is loaded without an explicit resolver the instance
\* holds no resolver: when the loop has handled a WM_SET_HTML message whose
\* moniker does not carry the base URL that setHTMLStringWithResourceResolver
\* builds for a resolver, the instance's resolver is null.
C10_NoResolverWithoutExplicitResolver ==
    [][(/\ PumpMessage
        /\ NextMessage.message = WM_SET_HTML
        /\ NextMessage.arg.base # WebViewBaseUrl)
       => wv'.resourceResolver = NULL]_vars

-----------------------------------------------------------------------------
(* Properties of the back/forward history *)

\* C8: after a setHtml message has been handled, the instance's saved
\* navigation list is empty.
C8_SetHtmlClearsSavedList ==
    [][(PumpMessage /\ NextMessage.message = WM_SET_HTML)
       => wv'.savedTravelLog = <<>>]_vars

\* C9: on an instance that shows the original content and has not navigated
\* away from it, handling goBack and then goForward leaves the control (travel
\* log, current document, load in progress) and the saved navigation list as
\* they were before the goBack.
C9_BackThenForwardIsNoOp ==
    [][(PumpMessage /\ NextMessage.message = WM_GO_FORWARD /\ gh.snap.valid)
       => (eng' = gh.snap.eng /\ wv'.savedTravelLog = gh.snap.saved)]_vars

-----------------------------------------------------------------------------
(* WebViewProtocol.cpp, WebResourceResolver.cpp: the handler of the webview:// *)
(* scheme. Strings are strings; a length is a number of characters.           *)

\* The numeric ids of the URLs parsed (0: swscanf_s found no id), their paths,
\* and the sizes of the caller's buffer, in characters.
WebViewIds == {0, 42}
ParsePaths == {"", "a", "foo/bar"}
BufferSizes == {1, 8, 14, 18, 32}

\* What the Java resolver does when it is invoked: it returns a URL, it returns
\* null, or the thread cannot attach to the Java VM.
ResolverResults ==
    {[jni |-> "JNI_OK", url |-> "file:/tmp/foo/bar"], [jni |-> "JNI_OK", url |-> "f:x"],
     [jni |-> "JNI_OK", url |-> NULL], [jni |-> "JNI_ERR", url |-> NULL]}

\* The WEB_VIEW_PTR_KEY property of the windows: the instance behind an id.
WebView(resolver) == [found |-> TRUE, resourceResolver |-> resolver]
NoWebView == [found |-> FALSE, resourceResolver |-> NULL]
ParseProps ==
    {[id \in {} |-> NoWebView]} \cup
    {[id \in {42} |-> WebView(resolver)] : resolver \in Resolvers \cup {NULL}}

\* WebViewWindow::FindWebView
FindWebView(props, webViewId) ==
    IF webViewId \in DOMAIN props THEN props[webViewId] ELSE NoWebView

\* What a call through a null pointer does in the build: the read of the
\* virtual table faults, or the call is skipped.
NullDerefOutcomes == {"AccessViolation", "Skipped"}

\* WebViewWindow::GetResourceResolver: AddRef is called on the resolver, null
\* or not.
GetResourceResolver(webViewWnd, ub) ==
    IF webViewWnd.resourceResolver = NULL
    THEN (IF ub = "AccessViolation" THEN "AccessViolation" ELSE NULL)
    ELSE webViewWnd.resourceResolver

SUCCEEDED(hr) == hr \in {"S_OK", "S_FALSE"}

\* WebResourceResolver::resolve
resolve(java, address, chResult) ==
    IF java.jni # "JNI_OK"
    THEN [hr |-> "E_UNEXPECTED", result |-> "", chResult |-> chResult]
    ELSE IF java.url = NULL
    THEN [hr |-> "S_OK", result |-> "", chResult |-> chResult]
    ELSE IF Len(java.url) + 1 <= chResult
    THEN [hr |-> "S_OK", result |-> java.url, chResult |-> chResult]
    ELSE [hr |-> "S_FALSE", result |-> "", chResult |-> Len(java.url) + 1]

\* WebViewProtocol::ParseWebViewUrl
ParseWebViewUrl(url) ==
    [webViewId |-> url.id, path |-> IF url.id # 0 THEN url.path ELSE NULL]

\* The output of ParseUrl: its result, the caller's buffer and *pcchResult
\* (the buffer "unwritten" and the size 0 when the call left them alone).
ParseOut(hr, result, pcchResult) ==
    [hr |-> hr, result |-> result, pcchResult |-> pcchResult]
NoParseOut == ParseOut(NULL, "unwritten", 0)

\* WebViewProtocol::ParseUrl
ParseUrl(in, ub) ==
    LET parsed == ParseWebViewUrl(in.url)
        path == parsed.path
        webViewWnd == FindWebView(in.props, parsed.webViewId)
        resolver == IF webViewWnd.found THEN GetResourceResolver(webViewWnd, ub)
                    ELSE NULL
        r == resolve(in.java, path, in.cchResult)
        len == Len("about:") + Len(path) + 1
        about == IF len > in.cchResult
                 THEN ParseOut("S_FALSE", "unwritten", 0)
                 ELSE ParseOut("S_OK", "about:" \o path, len)
    IN  IF path = NULL \/ Len(path) = 0
        THEN ParseOut("INET_E_DEFAULT_ACTION", "unwritten", 0)
        ELSE IF resolver = "AccessViolation"
        THEN ParseOut("AccessViolation", "unwritten", 0)
        ELSE IF resolver = NULL THEN about
        ELSE IF SUCCEEDED(r.hr)
        THEN ParseOut("S_OK", r.result, Len(r.result) + 1)
        ELSE IF len > r.chResult
        THEN ParseOut("S_FALSE", r.result, 0)
        ELSE ParseOut("S_OK", "about:" \o path, len)

ParseInputs ==
    [url : [id : WebViewIds, path : ParsePaths], cchResult : BufferSizes,
     props : ParseProps, java : ResolverResults]

\* URLMON calls ParseUrl.
DoParseUrl ==
    /\ call.fn = "ParseUrl" /\ ~call.done
    /\ \E ub \in NullDerefOutcomes :
          call' = [call EXCEPT !.done = TRUE, !.out = ParseUrl(call.in, ub)]
    /\ UNCHANGED <<wv, eng, queue, sent, ui, host, gh, ctl>>

InitParse ==
    /\ InitInstance([posts |-> 0, events |-> 0, fails |-> 0])
    /\ ctl = NoControl
    /\ call \in {[fn |-> "ParseUrl", in |-> in, done |-> FALSE, out |-> NoParseOut] :
                    in \in ParseInputs}

NextParse == DoParseUrl

SpecParse == InitParse /\ [][NextParse]_vars

\* The URL the resolver of the addressed instance yields, NULL when the instance
\* does not exist, has no resolver, or its resolver returns nothing.
ResolvedUrl(in) ==
    LET webViewWnd == FindWebView(in.props, in.url.id)
    IN  IF webViewWnd.found /\ webViewWnd.resourceResolver # NULL
           /\ in.java.jni = "JNI_OK"
        THEN in.java.url ELSE NULL

\* The URL that parse substitutes: the resolver's URL, or about:<path>.
SubstitutedUrl(in) ==
    IF ResolvedUrl(in) = NULL THEN "about:" \o in.url.path ELSE ResolvedUrl(in)

\* ParseUrl has returned from a call on a URL with an id and a non-empty path.
ParsedReservedUrl ==
    /\ call.fn = "ParseUrl" /\ call.done
    /\ call.in.url.id # 0 /\ call.in.url.path # ""

\* C11: parsing a reserved-scheme URL with a non-empty path into a buffer that
\* is large enough yields the resolver's URL when the addressed instance
\* exists, has a resolver and the resolver returns a URL, and about:<path> in
\* every other case.
C11_ParseSubstitutesUrl ==
    (ParsedReservedUrl /\ Len(SubstitutedUrl(call.in)) + 1 <= call.in.cchResult)
    => (call.out.hr = "S_OK" /\ call.out.result = SubstitutedUrl(call.in))

\* C12: whenever the substituted URL does not fit the caller's buffer, parse
\* returns the buffer-too-small signal and reports the required size.
C12_TooSmallBufferIsReported ==
    (ParsedReservedUrl /\ Len(SubstitutedUrl(call.in)) + 1 > call.in.cchResult)
    => (/\ call.out.hr = "S_FALSE"
        /\ call.out.pcchResult = Len(SubstitutedUrl(call.in)) + 1)

-----------------------------------------------------------------------------
(* WebViewControl.cpp: the message-only control window, which creates and     *)
(* destroys the instances of its thread, and the message loop as it runs with *)
(* several instances. The controller is the record ctl:                       *)
(*   pc               "run", or how RunWebViewMessageLoop ended                *)
(*   hasList, webViewWindows   the WEB_VIEW_WINDOW_LIST_KEY property, its set  *)
(*   props            the windows that exist, with their WEB_VIEW_PTR_KEY      *)
(*   inst             the WebViewWindow objects created so far (id = index)    *)
(*   q, quit          the posted messages of the thread, the quit flag         *)
(*   ret, handles     the result of the last create, the handles the host has  *)
(* and, as history, lastCreate, shutdown, dequeueError, destroyed, discarded,  *)
(* given, again (the handles the host has passed to releaseWebView, and those  *)
(* it has passed a second time),                                               *)
(* last (the instance whose handler ran in the last turn of the loop and the   *)
(* instances its tick reached).                                                *)

\* Instances created, and host calls that post a message, in one run.
MaxInstances == 2
MaxControlPosts == 3

WM_DESTROY == 2
WM_QUIT == 18
WM_WEBVIEW_DESTROY == WM_APP + 5

\* The window handle of the control window (instances have handles 1, 2, ...).
MessageWnd == 0

CtlMsg(hwnd, message, arg) ==
    [hwnd |-> hwnd, message |-> message, arg |-> arg, seq |-> 0]

\* A WebViewWindow object after its constructor: the fields of the capture
\* scheduling, whether Release has been called on it and how many times the
\* controller has called it, whether it ever was in the live set.
NewInstance ==
    [wv |-> [needToCapture |-> FALSE, alwaysCapture |-> FALSE,
             captureScheduled |-> FALSE],
     released |-> FALSE, releases |-> 0, registered |-> FALSE]

NoTurn == [hwnd |-> MessageWnd, ticked |-> {}]

\* DestroyWindow: the window and its properties go, and the system removes the
\* messages posted to it from the queue of the thread.
DestroyWindow(C, id) ==
    LET pending == {i \in 1..Len(C.q) : C.q[i].hwnd = id}
    IN  [C EXCEPT !.props = [w \in DOMAIN C.props \ {id} |-> C.props[w]],
                  !.q = SelectSeq(C.q, LAMBDA m : m.hwnd # id),
                  !.discarded = IF pending # {} THEN @ \cup {id} ELSE @]

\* SendMessage(WM_CLOSE) to an instance: its message map has no entry for it,
\* so DefWindowProc destroys the window.
CloseWebView(C, id) == IF id \in DOMAIN C.props THEN DestroyWindow(C, id) ELSE C

\* CComObject<WebViewWindow>::Release
Release(C, id) ==
    [C EXCEPT !.inst[id].released = TRUE, !.inst[id].releases = @ + 1]

\* Results of CComObject<WebViewWindow>::CreateInstance and of CreateWebBrowser
\* (which fails before it has a window, or after the window has its id).
CreateInstanceResults == {"S_OK", "E_OUTOFMEMORY"}
CreateWebBrowserResults == {"S_OK", "E_FAIL_NoWindow", "E_FAIL_Control"}

\* MessageWndProc, WM_WEBVIEW_CREATE. SetControlWindow is called on the object
\* before the result of CreateInstance is tested.
OnWebViewCreate(C, hrInstance, hrBrowser, ub) ==
    LET id == Len(C.inst) + 1
        D == [C EXCEPT !.inst = Append(@, NewInstance),
                       !.lastCreate = IF hrInstance # "S_OK" THEN hrInstance
                                      ELSE hrBrowser]
        window == [D EXCEPT !.props = [w \in DOMAIN C.props \cup {id} |->
                                          IF w = id THEN WebView(NULL) ELSE C.props[w]]]
    IN  IF hrInstance # "S_OK"
        THEN (IF ub = "AccessViolation"
              THEN [C EXCEPT !.pc = "AccessViolation", !.ret = 0,
                             !.lastCreate = hrInstance]
              ELSE [C EXCEPT !.ret = 0, !.lastCreate = hrInstance])
        ELSE IF hrBrowser = "S_OK"
        THEN [window EXCEPT !.webViewWindows = IF C.hasList THEN @ \cup {id} ELSE @,
                            !.inst[id].registered = C.hasList,
                            !.ret = id, !.handles = @ \cup {id}]
        ELSE IF hrBrowser = "E_FAIL_Control"
        THEN [Release(window, id) EXCEPT !.ret = 0]
        ELSE [Release(D, id) EXCEPT !.ret = 0]

\* A WM_WEBVIEW_DESTROY handler that leaves the instance in the live set.
OnWebViewDestroy_NoErase(C, wParam) ==
    IF C.hasList /\ FindWebView(C.props, wParam).found
    THEN [Release(CloseWebView(C, wParam), wParam)
             EXCEPT !.destroyed = @ \cup {wParam}]
    ELSE C

\* MessageWndProc, WM_WEBVIEW_DESTROY
OnWebViewDestroy(C, wParam) ==
    IF C.hasList /\ FindWebView(C.props, wParam).found
    THEN [Release(CloseWebView(C, wParam), wParam)
             EXCEPT !.webViewWindows = @ \ {wParam},
                    !.destroyed = @ \cup {wParam}]
    ELSE C

\* MessageWndProc, WM_WEBVIEW_UPDATE: ScheduleCapture on every instance of the
\* live set; a capture message goes to the window of the instance.
RECURSIVE ScheduleAll(_, _)
ScheduleAll(C, ids) ==
    IF ids = {} THEN C
    ELSE LET id == CHOOSE i \in ids : TRUE
             T == ScheduleCapture([wv |-> C.inst[id].wv, q |-> <<>>])
             posted == [i \in 1..Len(T.q) |-> CtlMsg(id, T.q[i].message, T.q[i].arg)]
         IN  ScheduleAll([C EXCEPT !.inst[id].wv = T.wv, !.q = @ \o posted,
                                   !.last.ticked = @ \cup {id}],
                         ids \ {id})

ControlUpdate(C) == IF C.hasList THEN ScheduleAll(C, C.webViewWindows) ELSE C

\* The loop of the WM_DESTROY handler: close and release every instance.
RECURSIVE CloseAll(_, _)
CloseAll(C, ids) ==
    IF ids = {} THEN C
    ELSE LET id == CHOOSE i \in ids : TRUE
         IN  CloseAll(Release(CloseWebView(C, id), id), ids \ {id})

\* MessageWndProc, WM_DESTROY
OnDestroy(C) ==
    LET D == IF C.hasList THEN CloseAll(C, C.webViewWindows) ELSE C
    IN  [D EXCEPT !.webViewWindows = {}, !.hasList = FALSE, !.quit = TRUE]

\* MessageWndProc
MessageWndProc(C, m) ==
    CASE m.message = WM_WEBVIEW_DESTROY -> OnWebViewDestroy(C, m.arg)
      [] m.message = WM_DESTROY -> OnDestroy(C)
      [] OTHER -> C

\* The window procedure of instance m.hwnd, as far as the scheduling of
\* captures goes: OnCapture; an input message, after which the page may change.
InstanceWndProc(C, m, change) ==
    LET id == m.hwnd
    IN  CASE m.message = WM_WEBVIEW_CAPTURE ->
                 [C EXCEPT !.inst[id].wv.captureScheduled = FALSE]
          [] m.message = WM_MOUSEMOVE /\ change ->
                 [C EXCEPT !.inst[id].wv =
                               OnViewChange([wv |-> C.inst[id].wv]).wv]
          [] OTHER -> C

\* DispatchMessage: to the control window, to the window of an instance, or to
\* no window at all when the target has been destroyed.
DispatchMessage(C, m, change) ==
    IF m.hwnd = MessageWnd
    THEN [MessageWndProc(C, m) EXCEPT !.last = NoTurn]
    ELSE IF m.hwnd \in DOMAIN C.props
    THEN [InstanceWndProc(C, m, change) EXCEPT !.last = [NoTurn EXCEPT !.hwnd = m.hwnd]]
    ELSE [C EXCEPT !.last = NoTurn]

InitControl ==
    /\ InitInstance([posts |-> 0, events |-> 0, fails |-> 0])
    /\ call = NoCall
    /\ ctl = [pc |-> "run", hasList |-> TRUE, webViewWindows |-> {},
              props |-> [w \in {} |-> NoWebView], inst |-> <<>>,
              q |-> <<>>, quit |-> FALSE, ret |-> 0, handles |-> {},
              lastCreate |-> NULL, shutdown |-> FALSE, dequeueError |-> FALSE,
              destroyed |-> {}, discarded |-> {}, given |-> {}, again |-> {},
              nPosts |-> 0,
              last |-> NoTurn]

\* One turn of RunWebViewMessageLoop: GetMessage, DispatchMessage, then the
\* WM_WEBVIEW_UPDATE it sends to the control window.
PumpControl ==
    /\ ctl.pc = "run" /\ GetMessage(ctl.q) # 0
    /\ ~(ctl.quit /\ PeekMessage(ctl.q, 0, WM_WEBVIEW_HIPRIORITY_LAST) = 0)
    /\ LET i == GetMessage(ctl.q)
           C == [ctl EXCEPT !.q = RemoveAt(ctl.q, i)]
       IN  \E change \in BOOLEAN :
               ctl' = ControlUpdate(DispatchMessage(C, ctl.q[i], change))
    /\ UNCHANGED <<wv, eng, queue, sent, ui, host, gh, call>>

\* PeekMessage retrieves WM_QUIT once PostQuitMessage has been called and no
\* posted message passes its filter: the loop breaks and returns S_OK.
PumpQuit ==
    /\ ctl.pc = "run" /\ ctl.quit
    /\ PeekMessage(ctl.q, 0, WM_WEBVIEW_HIPRIORITY_LAST) = 0
    /\ ctl' = [ctl EXCEPT !.pc = "S_OK"]
    /\ UNCHANGED <<wv, eng, queue, sent, ui, host, gh, call>>

\* The GetMessage call of the third stage returns -1: the loop returns E_FAIL.
PumpError ==
    /\ ctl.pc = "run" /\ ~ctl.quit
    /\ PeekMessage(ctl.q, 0, WM_WEBVIEW_HIPRIORITY_LAST) = 0
    /\ PeekMessage(ctl.q, WM_WEBVIEW_CAPTURE, WM_WEBVIEW_CAPTURE) = 0
    /\ ctl' = [ctl EXCEPT !.pc = "E_FAIL", !.dequeueError = TRUE]
    /\ UNCHANGED <<wv, eng, queue, sent, ui, host, gh, call>>

\* newWebViewWindow: NewWebViewWindow sends WM_WEBVIEW_CREATE, which the UI
\* thread handles inside its PeekMessage or GetMessage call.
newWebViewWindow ==
    /\ ctl.pc = "run" /\ Len(ctl.inst) < MaxInstances
    /\ \E hrInstance \in CreateInstanceResults, hrBrowser \in CreateWebBrowserResults,
          ub \in NullDerefOutcomes :
              ctl' = OnWebViewCreate(ctl, hrInstance, hrBrowser, ub)
    /\ UNCHANGED <<wv, eng, queue, sent, ui, host, gh, call>>

\* PostMessage from the host thread; it fails when the window does not exist.
ControlPost(C, m) ==
    IF m.hwnd = MessageWnd \/ m.hwnd \in DOMAIN C.props
    THEN [C EXCEPT !.q = Append(@, m), !.nPosts = @ + 1]
    ELSE [C EXCEPT !.nPosts = @ + 1]

\* releaseWebView: ReleaseWebView posts WM_WEBVIEW_DESTROY with the window
\* handle of the instance; the host gives up its handle.
releaseWebView ==
    /\ ctl.nPosts < MaxControlPosts
    /\ \E id \in ctl.handles :
          ctl' = [ControlPost(ctl, CtlMsg(MessageWnd, WM_WEBVIEW_DESTROY, id))
                     EXCEPT !.handles = @ \ {id}, !.given = @ \cup {id}]
    /\ UNCHANGED <<wv, eng, queue, sent, ui, host, gh, call>>

\* releaseWebView once more with a handle the host has given up: a second
\* WM_WEBVIEW_DESTROY for the same instance. The message carries the window
\* handle of the instance, or no handle (m_hWnd is reset when the window is
\* destroyed) once the first message has been handled.
releaseWebViewAgain ==
    /\ ctl.nPosts < MaxControlPosts
    /\ \E id \in ctl.given :
       \E hwnd \in {0, id} :
          /\ ~ctl.inst[id].released => hwnd = id
          /\ ctl' = [ControlPost(ctl, CtlMsg(MessageWnd, WM_WEBVIEW_DESTROY, hwnd))
                        EXCEPT !.again = @ \cup {id}]
    /\ UNCHANGED <<wv, eng, queue, sent, ui, host, gh, call>>

\* releaseMessageLoop: ReleaseMessageLoop posts WM_DESTROY to the control window.
releaseMessageLoop ==
    /\ ctl.nPosts < MaxControlPosts /\ ~ctl.shutdown
    /\ ctl' = [ControlPost(ctl, CtlMsg(MessageWnd, WM_DESTROY, NULL))
                  EXCEPT !.shutdown = TRUE]
    /\ UNCHANGED <<wv, eng, queue, sent, ui, host, gh, call>>

\* sendEvent on one of the instances the host holds: a mouse move.
sendEventTo ==
    /\ ctl.nPosts < MaxControlPosts
    /\ \E id \in ctl.handles : ctl' = ControlPost(ctl, CtlMsg(id, WM_MOUSEMOVE, 1))
    /\ UNCHANGED <<wv, eng, queue, sent, ui, host, gh, call>>

NextControl ==
    \/ PumpControl \/ PumpQuit \/ PumpError
    \/ newWebViewWindow \/ releaseWebView \/ releaseWebViewAgain
    \/ releaseMessageLoop \/ sendEventTo

SpecControl == InitControl /\ [][NextControl]_vars

\* The loop keeps turning: a thread that can dequeue a message does so.
SpecControlLive ==
    InitControl /\ [][NextControl]_vars /\ WF_vars(PumpControl) /\ WF_vars(PumpQuit)

-----------------------------------------------------------------------------
(* Properties of the controller *)

\* C13: once destroy(id) has been handled, no message addressed to that
\* instance (a capture or input message queued before the destroy included)
\* and no controller tick is processed by that instance again: the handler
\* that ran in the last turn of the loop is not the handler of a destroyed
\* instance, and the tick of that turn reached no destroyed instance.
C13_NoWorkAfterDestroy ==
    ctl.pc # "single" =>
        (/\ ctl.last.hwnd \notin ctl.destroyed
         /\ ctl.last.ticked \cap ctl.destroyed = {})

\* An instance was destroyed while a message posted to it was still queued,
\* and the loop has since turned for another instance.
C13_Witness ==
    /\ ctl.pc # "single"
    /\ ctl.destroyed \cap ctl.discarded # {}
    /\ ctl.last.ticked # {}

\* C14: create either returns a handle to a new instance that is registered in
\* the live set, or, when the instance object or the browser control cannot be
\* instantiated, returns no handle, registers no instance and leaves the loop
\* running.
C14_CreateRegistersOrFailsCleanly ==
    [][newWebViewWindow =>
          \/ /\ ctl'.ret # 0
             /\ ctl'.ret = Len(ctl.inst) + 1
             /\ ctl'.ret \in ctl'.webViewWindows
          \/ /\ ctl'.ret = 0
             /\ ctl'.lastCreate # "S_OK"
             /\ ctl'.webViewWindows = ctl.webViewWindows
             /\ ctl'.pc = "run"]_vars

\* Every instance that was in the live set has been closed and released.
AllReleased ==
    \A id \in 1..Len(ctl.inst) :
        ctl.inst[id].registered =>
            (ctl.inst[id].released /\ id \notin DOMAIN ctl.props)

\* C15: after a shutdown message is posted to a running pump, the pump
\* eventually closes and releases every live instance and its run loop
\* returns S_OK, unless the dequeue primitive reports an error; the run loop
\* returns E_FAIL only if the dequeue primitive reported an error.
C15_ShutdownReturnsSuccess ==
    /\ [](ctl.pc = "E_FAIL" => ctl.dequeueError)
    /\ (ctl.pc = "run" /\ ctl.shutdown)
           ~> (ctl.pc = "E_FAIL" \/ (ctl.pc = "S_OK" /\ AllReleased))

-----------------------------------------------------------------------------
(* WebViewWindow.cpp: the rectangles of a link, GetLinkParams and its helpers  *)

Rect(left, top, right, bottom) ==
    [left |-> left, top |-> top, right |-> right, bottom |-> bottom]

Min(a, b) == IF a < b THEN a ELSE b
Max(a, b) == IF a > b THEN a ELSE b

\* The content viewport of FindLinks, and the heights GetWindowRect reports
\* for the window (with and without a horizontal scroll bar below the content).
Viewport == Rect(0, 0, 4, 4)
WindowHeights == {4, 5}

\* Rectangles the document reports for line boxes and images: inside the
\* viewport, across its left edge, across its bottom right corner, outside it,
\* of zero width, and of zero width and height.
ElementRects ==
    {Rect(1, 1, 3, 2), Rect(-2, 1, 1, 2), Rect(3, 3, 6, 6), Rect(5, 5, 6, 6),
     Rect(2, 0, 2, 3), Rect(2, 2, 2, 2), Rect(0, 3, 1, 4)}

\* Line boxes per link and images per link.
MaxLineBoxes == 2
MaxImages == 1

\* WebViewWindow::RectsIntersect
RectsIntersect(elementRect, viewport) ==
    /\ elementRect.right > viewport.left
    /\ elementRect.bottom > viewport.top
    /\ elementRect.left < viewport.right
    /\ elementRect.top < viewport.bottom

\* WebViewWindow::ComputeRectIntersect
ComputeRectIntersect(r1, r2) ==
    IF RectsIntersect(r1, r2)
    THEN Rect(Max(r1.left, r2.left), Max(r1.top, r2.top),
              Min(r1.right, r2.right), Min(r1.bottom, r2.bottom))
    ELSE Rect(0, 0, 0, 0)

\* WebViewWindow::IsEmptyRect
IsEmptyRect(rect) == (rect.right - rect.left = 0) /\ (rect.bottom - rect.top = 0)

\* WebViewWindow::ComputeRectUnion
ComputeRectUnion(r1, r2) ==
    IF IsEmptyRect(r1) THEN r2
    ELSE IF IsEmptyRect(r2) THEN r1
    ELSE Rect(Min(r1.left, r2.left), Min(r1.top, r2.top),
              Max(r1.right, r2.right), Max(r1.bottom, r2.bottom))

\* IHTMLElement2::getBoundingClientRect of an anchor: the smallest rectangle
\* around its line boxes, all zero for an anchor without any.
RECURSIVE BoundingClientRect(_)
BoundingClientRect(rects) ==
    IF rects = <<>> THEN Rect(0, 0, 0, 0)
    ELSE IF Len(rects) = 1 THEN rects[1]
    ELSE LET r == Head(rects)
             b == BoundingClientRect(Tail(rects))
         IN  Rect(Min(r.left, b.left), Min(r.top, b.top),
                  Max(r.right, b.right), Max(r.bottom, b.bottom))

\* WebViewWindow::AddImageRects: the images of the anchor, each with the
\* rectangle the document reports and the result of IsVisible.
RECURSIVE AddImageRects(_, _, _, _, _)
AddImageRects(rectangles, imgs, overflow, linkRect, viewport) ==
    IF imgs = <<>> THEN rectangles
    ELSE LET img == Head(imgs)
             inView == ComputeRectIntersect(img.rect, viewport)
             imgVisibleRect == IF overflow \in {"hidden", "scroll"}
                               THEN ComputeRectIntersect(inView, linkRect)
                               ELSE inView
         IN  AddImageRects(IF ~img.visible \/ IsEmptyRect(imgVisibleRect)
                           THEN rectangles
                           ELSE Append(rectangles, imgVisibleRect),
                           Tail(imgs), overflow, linkRect, viewport)

\* WebViewWindow::AddLineBoxRects
AddLineBoxRects(rectangles, rects, viewport) ==
    rectangles \o SelectSeq(rects, LAMBDA r : RectsIntersect(r, viewport))

\* The y values of a rectangle in GL coordinates (origin at the bottom left).
ToGL(r, windowHeight) ==
    [r EXCEPT !.top = windowHeight - r.top, !.bottom = windowHeight - r.bottom]

\* The loop of GetLinkParams over the pickable areas: the bounding box so far.
RECURSIVE BoundingBox(_, _)
BoundingBox(box, rectangles) ==
    IF rectangles = <<>> THEN box
    ELSE BoundingBox(ComputeRectUnion(box, Head(rectangles)), Tail(rectangles))

NoLinkParams == [found |-> FALSE, rectangles |-> <<>>, bounds |-> Rect(0, 0, 0, 0)]

\* WebViewWindow::GetLinkParams, for an anchor with a URL.
GetLinkParams(anchor, viewport, windowHeight) ==
    LET linkBounds == BoundingClientRect(anchor.rects)
        linkVisibleRect == ComputeRectIntersect(viewport, linkBounds)
        images == AddImageRects(<<>>, anchor.imgs, anchor.overflow,
                                linkVisibleRect, viewport)
        rectangles ==
            IF anchor.rects = <<>> \/ anchor.display = "block"
            THEN Append(images, linkVisibleRect)
            ELSE AddLineBoxRects(images, anchor.rects, viewport)
        linkBoundingBox == BoundingBox(Rect(0, 0, 0, 0), rectangles)
    IN  IF IsEmptyRect(linkVisibleRect) /\ images = <<>> THEN NoLinkParams
        ELSE IF rectangles = <<>> THEN NoLinkParams
        ELSE [found |-> TRUE,
              rectangles |->
                  [i \in 1..Len(rectangles) |->
                      ToGL(ComputeRectIntersect(rectangles[i], viewport), windowHeight)],
              bounds |-> ToGL(ComputeRectIntersect(linkBoundingBox, viewport),
                              windowHeight)]

\* What the document reports for one anchor: its CSS display and overflow, its
\* line boxes (getClientRects) and its images.
RectSeqs(n) == UNION {[1..k -> ElementRects] : k \in 0..n}
Images == [rect : ElementRects, visible : BOOLEAN]
Anchors ==
    [display : {"inline", "block"}, overflow : {"visible", "hidden"},
     rects : RectSeqs(MaxLineBoxes),
     imgs : UNION {[1..k -> Images] : k \in 0..MaxImages}]

LinkInputs == [anchor : Anchors, windowHeight : WindowHeights]

\* FindLinks calls GetLinkParams for an anchor of the document.
DoGetLinkParams ==
    /\ call.fn = "GetLinkParams"
    /\ ~call.done
    /\ call' = [call EXCEPT !.done = TRUE,
                            !.out = GetLinkParams(call.in.anchor, Viewport,
                                                  call.in.windowHeight)]
    /\ UNCHANGED <<wv, eng, queue, sent, ui, host, gh, ctl>>

InitLinks ==
    /\ InitInstance([posts |-> 0, events |-> 0, fails |-> 0])
    /\ ctl = NoControl
    /\ \E in \in LinkInputs :
          call = [fn |-> "GetLinkParams", in |-> in, done |-> FALSE, out |-> NoLinkParams]

NextLinks == DoGetLinkParams

SpecLinks == InitLinks /\ [][NextLinks]_vars

\* A LinkRecord was produced for the anchor.
LinkRecordMade == call.fn = "GetLinkParams" /\ call.done /\ call.out.found

\* The viewport in GL coordinates, as the sub-rectangles are stored.
ViewportGL == ToGL(Viewport, call.in.windowHeight)

\* A stored rectangle (GL coordinates: top above bottom) has an intersection of
\* positive area with the viewport.
IntersectsViewport(r) ==
    /\ Min(r.right, ViewportGL.right) > Max(r.left, ViewportGL.left)
    /\ Min(r.top, ViewportGL.top) > Max(r.bottom, ViewportGL.bottom)

\* C16: every sub-rectangle of every LinkRecord has a non-empty intersection
\* with the viewport: none has zero area, none lies outside it.
C16_SubRectsIntersectViewport ==
    LinkRecordMade =>
        \A i \in 1..Len(call.out.rectangles) : IntersectsViewport(call.out.rectangles[i])

\* The axis-aligned union of stored rectangles (GL coordinates).
UnionGL(rectangles) ==
    LET idx == 1..Len(rectangles)
    IN  Rect(CHOOSE v \in {rectangles[i].left : i \in idx} :
                 \A i \in idx : v <= rectangles[i].left,
             CHOOSE v \in {rectangles[i].top : i \in idx} :
                 \A i \in idx : v >= rectangles[i].top,
             CHOOSE v \in {rectangles[i].right : i \in idx} :
                 \A i \in idx : v >= rectangles[i].right,
             CHOOSE v \in {rectangles[i].bottom : i \in idx} :
                 \A i \in idx : v <= rectangles[i].bottom)

\* C17: the bounding rectangle of a LinkRecord equals the axis-aligned union of
\* its stored sub-rectangles, each clipped against the viewport.
C17_BoundsIsUnionOfSubRects ==
    LinkRecordMade => call.out.bounds = UnionGL(call.out.rectangles)

-----------------------------------------------------------------------------
(* AWTEventSupport.cpp and WebViewWindow::OnSimulateInput: key events          *)

WM_KEYDOWN == 256
WM_KEYUP == 257

\* The bits of the key data in an LPARAM, by their number (1 << n).
EXTENDED_KEY == 24
PREVIOUS_KEY_STATE_BIT == 30
TRANSITION_STATE_BIT == 31

\* The low 32 bits of an LPARAM, as its two 16 bit words.
MAKELPARAM(lo, hi) == [lo |-> lo % 65536, hi |-> hi % 65536]
LOWORD(l) == l.lo
HIWORD(l) == l.hi

\* lParam |= (1 << bit), and the test of a bit.
HasBit(lParam, bit) ==
    IF bit < 16 THEN (lParam.lo \div 2^bit) % 2 = 1
    ELSE (lParam.hi \div 2^(bit - 16)) % 2 = 1
BitOr(lParam, bit) ==
    IF HasBit(lParam, bit) THEN lParam
    ELSE IF bit < 16 THEN [lParam EXCEPT !.lo = @ + 2^bit]
    ELSE [lParam EXCEPT !.hi = @ + 2^(bit - 16)]

\* GET_X_LPARAM, GET_Y_LPARAM: the words read as signed 16 bit values.
SignedShort(word) == IF word >= 32768 THEN word - 65536 ELSE word
GET_X_LPARAM(lp) == SignedShort(LOWORD(lp))
GET_Y_LPARAM(lp) == SignedShort(HIWORD(lp))

\* The keys of the host events: two letters, the delete key (an accelerator of
\* the browser control) and the undefined key code of a KEY_TYPED event.
LetterKeys == {"VK_A", "VK_Z"}
AWTKeyCodes == LetterKeys \cup {"VK_DELETE"}
AWTKeyLocations ==
    {"KEY_LOCATION_STANDARD", "KEY_LOCATION_UNKNOWN", "KEY_LOCATION_LEFT", "KEY_LOCATION_RIGHT"}

PostedMsg(message, wParam, lParam) ==
    [message |-> message, wParam |-> wParam, lParam |-> lParam]

\* A translation that takes the keys on the left for extended keys too.
WindowsKeyCodeFromAWTKeyCode_LeftExtended(event, winKeyCode, winExtendedInfo) ==
    [winKeyCode |->
        CASE event.keyCode = "VK_A" -> 65
          [] event.keyCode = "VK_Z" -> 90
          [] event.keyCode = "VK_CONTROL" -> 17
          [] event.keyCode = "VK_WINDOWS" ->
                 IF event.location = "KEY_LOCATION_RIGHT" THEN 92 ELSE 91
          [] event.keyCode = "VK_DELETE" -> 46
          [] event.keyCode = "VK_F1" -> 112
          [] OTHER -> winKeyCode,
     winExtendedInfo |->
        IF event.location \in {"KEY_LOCATION_RIGHT", "KEY_LOCATION_LEFT"}
        THEN BitOr(winExtendedInfo, EXTENDED_KEY)
        ELSE winExtendedInfo]

\* WindowsKeyCodeFromAWTKeyCode: the virtual-key code of the AWT key code, and
\* the extended-key bit for a key on the right of the keyboard.
WindowsKeyCodeFromAWTKeyCode(event, winKeyCode, winExtendedInfo) ==
    [winKeyCode |->
        CASE event.keyCode = "VK_A" -> 65
          [] event.keyCode = "VK_Z" -> 90
          [] event.keyCode = "VK_CONTROL" -> 17
          [] event.keyCode = "VK_WINDOWS" ->
                 IF event.location = "KEY_LOCATION_RIGHT" THEN 92 ELSE 91
          [] event.keyCode = "VK_DELETE" -> 46
          [] event.keyCode = "VK_F1" -> 112
          [] OTHER -> winKeyCode,
     winExtendedInfo |->
        IF event.location = "KEY_LOCATION_RIGHT"
        THEN BitOr(winExtendedInfo, EXTENDED_KEY)
        ELSE winExtendedInfo]

\* PostKeyMsgFromAWTKeyEvent: the messages it posts to the target window.
PostKeyMsgFromAWTKeyEvent(event) ==
    LET key == WindowsKeyCodeFromAWTKeyCode(event, 0, MAKELPARAM(1, 0))
    IN  CASE event.id = "KEY_PRESSED" ->
               <<PostedMsg(WM_KEYDOWN, key.winKeyCode, key.winExtendedInfo)>>
          [] event.id = "KEY_RELEASED" ->
               <<PostedMsg(WM_KEYUP, key.winKeyCode,
                           BitOr(BitOr(key.winExtendedInfo, PREVIOUS_KEY_STATE_BIT),
                                 TRANSITION_STATE_BIT))>>
          [] OTHER -> <<>>

\* The client area of the browser window and the child windows embedded in
\* the page (none, or one over the top left corner).
BrowserClient == Rect(0, 0, 400, 300)
EmbeddedChildren == {<<>>, <<[hwnd |-> "Embedded", rect |-> Rect(0, 0, 50, 50)]>>}

PtInRect(rect, x, y) ==
    x >= rect.left /\ x < rect.right /\ y >= rect.top /\ y < rect.bottom

\* ChildWindowFromPoint: the child that contains the point, the parent when no
\* child does, NULL for a point outside the parent or without a parent.
ChildWindowFromPoint(win, x, y) ==
    IF win.hWndBrowser = NULL \/ ~PtInRect(BrowserClient, x, y) THEN NULL
    ELSE IF \E i \in 1..Len(win.children) : PtInRect(win.children[i].rect, x, y)
         THEN win.children[CHOOSE i \in 1..Len(win.children) :
                               PtInRect(win.children[i].rect, x, y)].hwnd
         ELSE win.hWndBrowser

\* IOleInPlaceActiveObject::TranslateAccelerator of the browser control: the
\* delete key is one of its accelerators, a letter key alone is not.
TranslateAccelerator(msg) == IF msg.wParam = 46 THEN "S_OK" ELSE "S_FALSE"

\* WebViewWindow::OnSimulateInput for WM_KEYDOWN and WM_KEYUP: the window under
\* the point read from lParam, and the message forwarded to it (if any).
OnSimulateInputKey(win, msg) ==
    LET clientX == GET_X_LPARAM(msg.lParam)
        clientY == GET_Y_LPARAM(msg.lParam)
        hWndUnderCursor == ChildWindowFromPoint(win, clientX, clientY)
        targetHwnd ==
            CASE msg.message = WM_KEYDOWN ->
                   IF TranslateAccelerator(msg) = "S_OK" THEN NULL ELSE hWndUnderCursor
              [] OTHER -> hWndUnderCursor
    IN  [hWndUnderCursor |-> hWndUnderCursor, targetHwnd |-> targetHwnd]

\* The key events of one key stroke as AWT delivers them.
KeyStroke(keyCode, location) ==
    << [id |-> "KEY_PRESSED", keyCode |-> keyCode, location |-> location],
       [id |-> "KEY_TYPED", keyCode |-> "VK_UNDEFINED", location |-> "KEY_LOCATION_UNKNOWN"],
       [id |-> "KEY_RELEASED", keyCode |-> keyCode, location |-> location] >>

\* sendEvent with the next key event of the stroke.
sendKeyEvent ==
    /\ call.fn = "sendEvent"
    /\ call.events # <<>>
    /\ call' = [call EXCEPT !.events = Tail(@),
                            !.q = @ \o PostKeyMsgFromAWTKeyEvent(Head(call.events))]
    /\ UNCHANGED <<wv, eng, queue, sent, ui, host, gh, ctl>>

\* The pump dispatches the next posted key message to the instance.
DispatchKeyMsg ==
    /\ call.fn = "sendEvent"
    /\ call.q # <<>>
    /\ LET msg == Head(call.q)
           r == OnSimulateInputKey(call.win, msg)
       IN  call' = [call EXCEPT
                       !.q = Tail(@),
                       !.win.hWndUnderCursor = r.hWndUnderCursor,
                       !.received = IF r.targetHwnd = NULL THEN @
                                    ELSE Append(@, [hwnd |-> r.targetHwnd, msg |-> msg])]
    /\ UNCHANGED <<wv, eng, queue, sent, ui, host, gh, ctl>>

\* The instance after its first document completed: OnDocumentComplete has
\* found the window of the engine.
InitKeys ==
    /\ InitInstance([posts |-> 0, events |-> 0, fails |-> 0])
    /\ ctl = NoControl
    /\ \E keyCode \in AWTKeyCodes, location \in AWTKeyLocations,
          children \in EmbeddedChildren :
          call = [fn |-> "sendEvent",
                  key |-> [keyCode |-> keyCode, location |-> location],
                  events |-> KeyStroke(keyCode, location),
                  q |-> <<>>,
                  win |-> [hWndBrowser |-> "IEServer", children |-> children,
                           hWndUnderCursor |-> NULL],
                  received |-> <<>>]

NextKeys == sendKeyEvent \/ DispatchKeyMsg

SpecKeys == InitKeys /\ [][NextKeys]_vars

\* The messages the window of the engine has received.
EngineReceived ==
    SelectSeq(call.received, LAMBDA r : r.hwnd = "IEServer")

\* A letter key without location hint was pressed and released, and the pump
\* has dispatched everything that was posted.
LetterStrokeHandled ==
    /\ call.fn = "sendEvent"
    /\ call.key.keyCode \in LetterKeys
    /\ call.key.location # "KEY_LOCATION_RIGHT"
    /\ call.events = <<>>
    /\ call.q = <<>>

\* C18: after a press and a release of a letter key with no location hint, the
\* engine window has received a key-down with the letter's virtual-key code and
\* repeat count 1, then a key-up with the previous-state and transition-state
\* bits set.
C18_KeyStrokeReachesEngine ==
    LetterStrokeHandled =>
        /\ Len(EngineReceived) = 2
        /\ EngineReceived[1].msg.message = WM_KEYDOWN
        /\ EngineReceived[1].msg.wParam = (IF call.key.keyCode = "VK_A" THEN 65 ELSE 90)
        /\ LOWORD(EngineReceived[1].msg.lParam) = 1
        /\ EngineReceived[2].msg.message = WM_KEYUP
        /\ HasBit(EngineReceived[2].msg.lParam, PREVIOUS_KEY_STATE_BIT)
        /\ HasBit(EngineReceived[2].msg.lParam, TRANSITION_STATE_BIT)

-----------------------------------------------------------------------------
(* AWTEventSupport.cpp: mouse events                                           *)

WM_LBUTTONDOWN == 513
WM_LBUTTONUP == 514
WM_LBUTTONDBLCLK == 515
WM_RBUTTONDOWN == 516
WM_RBUTTONUP == 517
WM_RBUTTONDBLCLK == 518
WM_MBUTTONDOWN == 519
WM_MBUTTONUP == 520
WM_MBUTTONDBLCLK == 521

MK_LBUTTON == 1
MK_RBUTTON == 2
MK_SHIFT == 4
MK_CONTROL == 8
MK_MBUTTON == 16

\* Click counts of the host events.
MaxClickCount == 3

\* The buttons of a MouseEvent and the bits of its extended modifiers.
AWTButtons == {"BUTTON1", "BUTTON2", "BUTTON3"}
AWTDownMasks ==
    {"BUTTON1_DOWN_MASK", "BUTTON2_DOWN_MASK", "BUTTON3_DOWN_MASK",
     "SHIFT_DOWN_MASK", "CTRL_DOWN_MASK"}
DownMaskOf(button) ==
    CASE button = "BUTTON1" -> "BUTTON1_DOWN_MASK"
      [] button = "BUTTON2" -> "BUTTON2_DOWN_MASK"
      [] button = "BUTTON3" -> "BUTTON3_DOWN_MASK"
      [] OTHER -> "NOBUTTON"

\* InputEvent.getModifiersEx: the keys and buttons down just after the event,
\* so with the button of a press and without the button of a release or click.
getModifiersEx(event) ==
    IF event.id = "MOUSE_PRESSED"
    THEN event.held \cup {DownMaskOf(event.button)}
    ELSE event.held \ {DownMaskOf(event.button)}

\* WindowsMouseMaskFromAWTMask
WindowsMouseMaskFromAWTMask(button) ==
      (IF "BUTTON1_DOWN_MASK" \in button THEN MK_LBUTTON ELSE 0)
    + (IF "BUTTON3_DOWN_MASK" \in button THEN MK_RBUTTON ELSE 0)
    + (IF "BUTTON2_DOWN_MASK" \in button THEN MK_MBUTTON ELSE 0)
    + (IF "SHIFT_DOWN_MASK" \in button THEN MK_SHIFT ELSE 0)
    + (IF "CTRL_DOWN_MASK" \in button THEN MK_CONTROL ELSE 0)

\* LParamPointFromAWTEvent
LParamPointFromAWTEvent(event) == MAKELPARAM(event.x, event.y)

\* PostMouseMsgFromAWTMouseEvent: the message it posts to the target window.
PostMouseMsgFromAWTMouseEvent(event) ==
    LET wParam == WindowsMouseMaskFromAWTMask(getModifiersEx(event))
        lParam == LParamPointFromAWTEvent(event)
        message ==
            CASE event.id = "MOUSE_PRESSED" ->
                   (CASE wParam = MK_LBUTTON -> WM_LBUTTONDOWN
                      [] wParam = MK_RBUTTON -> WM_RBUTTONDOWN
                      [] wParam = MK_MBUTTON -> WM_MBUTTONDOWN
                      [] OTHER -> WM_LBUTTONDOWN)
              [] event.id = "MOUSE_RELEASED" ->
                   (CASE wParam = MK_LBUTTON -> WM_LBUTTONUP
                      [] wParam = MK_RBUTTON -> WM_RBUTTONUP
                      [] wParam = MK_MBUTTON -> WM_MBUTTONUP
                      [] OTHER -> WM_LBUTTONUP)
              [] event.id \in {"MOUSE_MOVED", "MOUSE_DRAGGED"} -> WM_MOUSEMOVE
              [] event.id = "MOUSE_CLICKED" /\ event.clickCount % 2 = 0 ->
                   (CASE wParam = MK_LBUTTON -> WM_LBUTTONDBLCLK
                      [] wParam = MK_RBUTTON -> WM_RBUTTONDBLCLK
                      [] wParam = MK_MBUTTON -> WM_MBUTTONDBLCLK
                      [] OTHER -> WM_LBUTTONDBLCLK)
              [] OTHER -> 0
    IN  PostedMsg(message, wParam, lParam)

\* The mouse events of the host: the event, its button, and the keys and
\* other buttons held at the time.
MouseEvents ==
    [id : {"MOUSE_PRESSED", "MOUSE_RELEASED", "MOUSE_CLICKED"},
     button : AWTButtons, held : SUBSET AWTDownMasks,
     clickCount : 1..MaxClickCount, x : {10}, y : {20}]
    \cup
    [id : {"MOUSE_MOVED", "MOUSE_DRAGGED"},
     button : {"NOBUTTON"}, held : SUBSET AWTDownMasks,
     clickCount : {0}, x : {10}, y : {20}]

\* sendEvent with a mouse event.
sendMouseEvent ==
    /\ call.fn = "PostMouseMsgFromAWTMouseEvent"
    /\ ~call.done
    /\ call' = [call EXCEPT !.done = TRUE,
                            !.out = PostMouseMsgFromAWTMouseEvent(call.in)]
    /\ UNCHANGED <<wv, eng, queue, sent, ui, host, gh, ctl>>

InitMouse ==
    /\ InitInstance([posts |-> 0, events |-> 0, fails |-> 0])
    /\ ctl = NoControl
    /\ \E event \in MouseEvents :
          /\ DownMaskOf(event.button) \notin event.held
          /\ call = [fn |-> "PostMouseMsgFromAWTMouseEvent", in |-> event,
                     done |-> FALSE, out |-> PostedMsg(0, 0, MAKELPARAM(0, 0))]

NextMouse == sendMouseEvent

SpecMouse == InitMouse /\ [][NextMouse]_vars

\* The native message of a button for a press, a release and a double click.
NativeButtonMessage(event) ==
    CASE event.button = "BUTTON1" ->
           (CASE event.id = "MOUSE_PRESSED" -> WM_LBUTTONDOWN
              [] event.id = "MOUSE_RELEASED" -> WM_LBUTTONUP
              [] OTHER -> WM_LBUTTONDBLCLK)
      [] event.button = "BUTTON3" ->
           (CASE event.id = "MOUSE_PRESSED" -> WM_RBUTTONDOWN
              [] event.id = "MOUSE_RELEASED" -> WM_RBUTTONUP
              [] OTHER -> WM_RBUTTONDBLCLK)
      [] OTHER ->
           (CASE event.id = "MOUSE_PRESSED" -> WM_MBUTTONDOWN
              [] event.id = "MOUSE_RELEASED" -> WM_MBUTTONUP
              [] OTHER -> WM_MBUTTONDBLCLK)

\* A press, a release or a double click of one of the three buttons was posted.
ButtonEventPosted ==
    /\ call.fn = "PostMouseMsgFromAWTMouseEvent"
    /\ call.done
    /\ call.in.button \in AWTButtons
    /\ \/ call.in.id \in {"MOUSE_PRESSED", "MOUSE_RELEASED"}
       \/ call.in.id = "MOUSE_CLICKED" /\ call.in.clickCount = 2

\* C19: a press, release or double click of the left, right or middle button is
\* translated to the down, up or double-click message of that same button,
\* whatever modifier keys or other buttons are held.
C19_ButtonMessageMatchesButton ==
    ButtonEventPosted => call.out.message = NativeButtonMessage(call.in)

-----------------------------------------------------------------------------
(* The back/forward history over several pages *)

\* Host API calls and link navigations of the runs that walk back over
\* several pages to the original content and forward again.
MaxRestorePosts == 4
MaxRestoreEvents == 3

InitRestore ==
    InitState([posts |-> MaxRestorePosts, events |-> MaxRestoreEvents, fails |-> 0])

\* The instance with a user who follows links and a host that calls goBack and
\* goForward, each when the UI thread is idle.
NextRestore ==
    \/ PumpMessage \/ PumpCapture
    \/ StepCaptureBitMap \/ StepCaptureStamp \/ StepCaptureReturn \/ StepOnCapture
    \/ DocumentComplete \/ StepDocumentCompleteEnd \/ StepUpdate
    \/ (Idle /\ LinkNavigate)
    \/ (Idle /\ goBack)
    \/ (Idle /\ goForward)

SpecRestore == InitRestore /\ [][NextRestore]_vars

C21_GoBackOnOriginalIsNoOp ==
    [][(/\ PumpMessage
        /\ NextMessage.message = WM_GO_BACK
        /\ wv.originalContentLoaded)
       => (/\ eng' = eng
           /\ wv'.savedTravelLog = wv.savedTravelLog
           /\ wv'.mustClearTravelLog = wv.mustClearTravelLog
           /\ wv'.originalContentLoaded = wv.originalContentLoaded)]_vars

\* goBack was handled on the reloaded original content, with entries saved and
\* the must-clear flag set by an earlier goBack: all of it is still there.
C21_Witness ==
    /\ gh.snap.valid
    /\ eng = gh.snap.eng
    /\ wv.originalContentLoaded
    /\ wv.mustClearTravelLog
    /\ wv.savedTravelLog # <<>>
    /\ wv.savedTravelLog = gh.snap.saved

-----------------------------------------------------------------------------
(* WindowsWebViewJNI.cpp: the arguments of the host-facing calls              *)

\* The entry points checked, and the argument values tried: a null and a
\* non-null instance pointer, sizes below, at and above zero, a null and a
\* non-null object (observer pointer, listener, colour string).
JniNames ==
    {"setMinContentSize", "setFrameSize", "addWindowUpdateObserver",
     "setBackgroundColor", "goBack", "newNotificationAdapter", "releaseWebView"}
JniPointers == {0, 1}
JniSizes == {-1, 0, 300}
JniObjects == {NULL, "object"}
JniCalls ==
    [name : JniNames, webViewWindowPtr : JniPointers,
     width : JniSizes, height : JniSizes, object : JniObjects]

\* What a call did: the exception pending when it returns, the messages it
\* posted or sent to the instance, and how it ended.
JniOut(exception, messages, pc) ==
    [exception |-> exception, messages |-> messages, pc |-> pc]
JNU_ThrowByName(name) == JniOut(name, <<>>, "returned")
ILLEGAL_ARGUMENT_EXCEPTION == "java/lang/IllegalArgumentException"

\* The entry points of WindowsWebViewJNI.cpp, each with its argument tests in
\* the order of the code. ub is the outcome of a call through a null pointer.
JniCall(c, ub) ==
    CASE c.name = "setMinContentSize" ->
           IF c.webViewWindowPtr = 0 THEN JNU_ThrowByName(ILLEGAL_ARGUMENT_EXCEPTION)
           ELSE IF c.width < 0 THEN JNU_ThrowByName(ILLEGAL_ARGUMENT_EXCEPTION)
           ELSE IF c.height < 0 THEN JNU_ThrowByName(ILLEGAL_ARGUMENT_EXCEPTION)
           ELSE JniOut(NULL, <<WM_WEBVIEW_SET_MIN_CONTENT_SIZE>>, "returned")
      [] c.name = "setFrameSize" ->
           IF c.webViewWindowPtr = 0 THEN JNU_ThrowByName(ILLEGAL_ARGUMENT_EXCEPTION)
           ELSE IF c.width < 0 THEN JNU_ThrowByName(ILLEGAL_ARGUMENT_EXCEPTION)
           ELSE IF c.height < 0 THEN JNU_ThrowByName(ILLEGAL_ARGUMENT_EXCEPTION)
           ELSE JniOut(NULL, <<WM_SIZE>>, "returned")
      [] c.name = "addWindowUpdateObserver" ->
           \* both tests read webViewWindowPtr; observerPtr is used untested
           IF c.webViewWindowPtr = 0 THEN JNU_ThrowByName(ILLEGAL_ARGUMENT_EXCEPTION)
           ELSE IF c.webViewWindowPtr = 0 THEN JNU_ThrowByName(ILLEGAL_ARGUMENT_EXCEPTION)
           ELSE IF c.object = NULL /\ ub = "AccessViolation"
                THEN JniOut(NULL, <<>>, "AccessViolation")
                ELSE JniOut(NULL, <<WM_WEBVIEW_SET_ADVISE>>, "returned")
      [] c.name = "setBackgroundColor" ->
           IF c.webViewWindowPtr = 0 THEN JNU_ThrowByName(ILLEGAL_ARGUMENT_EXCEPTION)
           ELSE IF c.object = NULL THEN JNU_ThrowByName(ILLEGAL_ARGUMENT_EXCEPTION)
           ELSE JniOut(NULL, <<WM_WEBVIEW_SET_BACKGROUND_COLOR>>, "returned")
      [] c.name = "goBack" ->
           IF c.webViewWindowPtr = 0 THEN JNU_ThrowByName(ILLEGAL_ARGUMENT_EXCEPTION)
           ELSE JniOut(NULL, <<WM_GO_BACK>>, "returned")
      [] c.name = "newNotificationAdapter" ->
           IF c.object = NULL THEN JNU_ThrowByName(ILLEGAL_ARGUMENT_EXCEPTION)
           ELSE JniOut(NULL, <<>>, "returned")
      [] OTHER ->  \* releaseWebView
           IF c.webViewWindowPtr = 0 THEN JniOut(NULL, <<>>, "returned")
           ELSE JniOut(NULL, <<WM_WEBVIEW_DESTROY>>, "returned")

\* The host makes the call.
DoJniCall ==
    /\ call.fn = "JniCall"
    /\ ~call.done
    /\ \E ub \in NullDerefOutcomes :
          call' = [call EXCEPT !.done = TRUE, !.out = JniCall(call.in, ub)]
    /\ UNCHANGED <<wv, eng, queue, sent, ui, host, gh, ctl>>

InitJni ==
    /\ InitInstance([posts |-> 0, events |-> 0, fails |-> 0])
    /\ ctl = NoControl
    /\ \E c \in JniCalls :
          call = [fn |-> "JniCall", in |-> c, done |-> FALSE,
                  out |-> JniOut(NULL, <<>>, "called")]

NextJni == DoJniCall

SpecJni == InitJni /\ [][NextJni]_vars

\* The arguments the entry point needs, and whether one of them is invalid: a
\* null instance pointer, a negative width or height, a null object.
TakesInstance(c) == c.name # "newNotificationAdapter"
TakesSize(c) == c.name \in {"setMinContentSize", "setFrameSize"}
TakesObject(c) ==
    c.name \in {"addWindowUpdateObserver", "setBackgroundColor", "newNotificationAdapter"}
InvalidArguments(c) ==
    \/ TakesInstance(c) /\ c.webViewWindowPtr = 0
    \/ TakesSize(c) /\ (c.width < 0 \/ c.height < 0)
    \/ TakesObject(c) /\ c.object = NULL

\* C22: a host-facing call given a null instance, a negative width or height,
\* or a null listener or observer where one is required raises
\* IllegalArgumentException, posts no message and touches no instance state.
C22_InvalidArgumentsAreRejected ==
    (call.fn = "JniCall" /\ call.done /\ InvalidArguments(call.in))
    => (/\ call.out.exception = ILLEGAL_ARGUMENT_EXCEPTION
        /\ call.out.messages = <<>>
        /\ call.out.pc = "returned")

-----------------------------------------------------------------------------
(* WebViewWindow::CreateWebBrowser: the registration of the webview scheme,   *)
(* with instances created on the UI threads of several controllers.           *)

\* The UI threads (one per controller) and the instances each of them creates.
MaxUIThreads == 2
MaxCreates == 2
UIThreads == 1..MaxUIThreads

\* WebViewWindow::InitializeWebViewProtocol: the number of registrations of
\* the scheme after the call, given the result of CoInternetGetSession.
InitializeWebViewProtocol(registrations, hr) ==
    IF hr = "S_OK" THEN registrations + 1 ELSE registrations

\* CreateWebBrowser reads the static flag protocolInitialized.
TestProtocolInitialized(t) ==
    /\ call.fn = "CreateWebBrowser"
    /\ call.pc[t] = "idle" /\ call.created[t] < MaxCreates
    /\ call' = [call EXCEPT !.pc[t] = IF call.protocolInitialized
                                      THEN "Create" ELSE "InitializeWebViewProtocol"]
    /\ UNCHANGED <<wv, eng, queue, sent, ui, host, gh, ctl>>

\* It found the flag FALSE and calls InitializeWebViewProtocol.
RegisterProtocol(t) ==
    /\ call.fn = "CreateWebBrowser"
    /\ call.pc[t] = "InitializeWebViewProtocol"
    /\ \E hr \in {"S_OK", "E_FAIL"} :
          call' = [call EXCEPT
                      !.registrations = InitializeWebViewProtocol(@, hr),
                      !.noSession = @ \/ hr # "S_OK",
                      !.pc[t] = "SetProtocolInitialized"]
    /\ UNCHANGED <<wv, eng, queue, sent, ui, host, gh, ctl>>

\* It sets the flag.
SetProtocolInitialized(t) ==
    /\ call.fn = "CreateWebBrowser"
    /\ call.pc[t] = "SetProtocolInitialized"
    /\ call' = [call EXCEPT !.protocolInitialized = TRUE, !.pc[t] = "Create"]
    /\ UNCHANGED <<wv, eng, queue, sent, ui, host, gh, ctl>>

\* The rest of CreateWebBrowser: the window and the control.
CreateWindowAndControl(t) ==
    /\ call.fn = "CreateWebBrowser"
    /\ call.pc[t] = "Create"
    /\ call' = [call EXCEPT !.created[t] = @ + 1, !.pc[t] = "idle"]
    /\ UNCHANGED <<wv, eng, queue, sent, ui, host, gh, ctl>>

InitProtocol ==
    /\ InitInstance([posts |-> 0, events |-> 0, fails |-> 0])
    /\ ctl = NoControl
    /\ call = [fn |-> "CreateWebBrowser", protocolInitialized |-> FALSE,
               registrations |-> 0, noSession |-> FALSE,
               pc |-> [t \in UIThreads |-> "idle"],
               created |-> [t \in UIThreads |-> 0]]

NextProtocol ==
    \E t \in UIThreads :
        \/ TestProtocolInitialized(t)
        \/ RegisterProtocol(t)
        \/ SetProtocolInitialized(t)
        \/ CreateWindowAndControl(t)

SpecProtocol == InitProtocol /\ [][NextProtocol]_vars

\* C23: the webview scheme is registered exactly once per process, also when
\* instances are created concurrently on the UI threads of different
\* controllers: never twice, and once as soon as an instance has passed the
\* registration step of its creation (unless the process could not get its
\* internet session, when nothing can be registered).
C23_SchemeRegisteredOnce ==
    call.fn = "CreateWebBrowser" =>
        /\ call.registrations <= 1
        /\ ((\E t \in UIThreads : call.pc[t] = "Create" \/ call.created[t] > 0)
                /\ ~call.noSession)
               => call.registrations = 1

-----------------------------------------------------------------------------
(* The capture buffer and the bitmap mutex, WebViewWindow.cpp: the fields
   captureBits, captureWidth, captureHeight and updateTime, written by the
   browser UI thread in CaptureBitMap and CaptureWebView and read by the
   consumer thread in CaptureToGLTexture, one step per access. *)

\* Captures of one run, and moves of the window by setFrameSize.
MaxBufferCaptures == 3
MaxResizes == 2

\* Widths and heights of the client area of the window.
ClientSizes == {[w |-> 2, h |-> 2], [w |-> 3, h |-> 2]}

\* The memory of a DIB section: the capture that created it, its dimensions,
\* and whether GetDIBits has copied the rendering into it.
Pixels(cap, w, h, filled) == [cap |-> cap, w |-> w, h |-> h, filled |-> filled]
NoPixels == Pixels(0, 0, 0, FALSE)

\* CaptureBitMap up to DrawCaret: the device contexts and the compatible
\* bitmap, which has the size of the client area. When CreateCompatibleDC or
\* CreateCompatibleBitmap fails the function jumps to done.
CaptureBitMapDraw(b, gdi) ==
    LET c == [b EXCEPT !.capSeq = @ + 1,
                       !.nFail = IF gdi = "noDC" THEN @ + 1 ELSE @]
    IN  IF gdi = "noDC" THEN [c EXCEPT !.ui = "Stamp"]
        ELSE [c EXCEPT !.captureBmp = b.client, !.ui = "GetObject"]

\* captureWidth = captureBmp.bmWidth; captureHeight = captureBmp.bmHeight;
CaptureBitMapSize(b) ==
    [b EXCEPT !.captureWidth = b.captureBmp.w,
              !.captureHeight = b.captureBmp.h,
              !.ui = "MutexLock"]

\* MutexLock lock(bitmapMutex) of CaptureBitMap, once the mutex is free.
CaptureBitMapLock(b) == [b EXCEPT !.bitmapMutex = "ui", !.ui = "CreateDIBSection"]

\* A critical section that ends before the rendering has been copied.
CaptureBitMapCreateDIB_UnlockEarly(b, gdi) ==
    IF gdi = "noDIB"
    THEN [b EXCEPT !.captureBits = NoPixels, !.nFail = @ + 1,
                   !.bitmapMutex = "free", !.ui = "Stamp"]
    ELSE [b EXCEPT !.captureBits =
                       Pixels(b.capSeq, b.captureBmp.w, b.captureBmp.h, FALSE),
                   !.bitmapMutex = "free", !.ui = "GetDIBits"]

\* The previous DIB section is deleted and CreateDIBSection stores the
\* address of the new one in captureBits, NULL when it fails; a failure
\* jumps to done, which leaves the critical section.
CaptureBitMapCreateDIB(b, gdi) ==
    IF gdi = "noDIB"
    THEN [b EXCEPT !.captureBits = NoPixels, !.nFail = @ + 1,
                   !.bitmapMutex = "free", !.ui = "Stamp"]
    ELSE [b EXCEPT !.captureBits =
                       Pixels(b.capSeq, b.captureBmp.w, b.captureBmp.h, FALSE),
                   !.ui = "GetDIBits"]

\* GetDIBits copies the rendering; the critical section ends.
CaptureBitMapGetDIBits(b) ==
    [b EXCEPT !.captureBits.filled = TRUE, !.stored = b.captureBits.cap,
              !.bitmapMutex = "free", !.ui = "Stamp"]

\* CaptureWebView after CaptureBitMap: this->updateTime = GetTickCount();
CaptureWebViewStamp(b, dt) == [b EXCEPT !.updateTime = @ + dt, !.ui = "idle"]

\* MutexLock lock(bitmapMutex) of CaptureToGLTexture, once the mutex is free.
CaptureToGLTextureLock(b) == [b EXCEPT !.bitmapMutex = "consumer", !.gl = "test"]

\* if (captureBits) glTexSubImage2D(..., captureWidth, captureHeight, ...,
\* captureBits): what the consumer reads is kept in upload.
CaptureToGLTextureUpload(b) ==
    IF b.captureBits # NoPixels
    THEN [b EXCEPT !.upload = [bits |-> b.captureBits, width |-> b.captureWidth,
                               height |-> b.captureHeight],
                   !.uploaded = b.captureBits.cap, !.gl = "free"]
    ELSE [b EXCEPT !.upload = [bits |-> NoPixels, width |-> 0, height |-> 0],
                   !.gl = "return"]

\* The DIB section is deleted and the fields are cleared.
CaptureToGLTextureFree(b) ==
    [b EXCEPT !.captureBits = NoPixels, !.captureWidth = 0, !.captureHeight = 0,
              !.gl = "return"]

\* return TRUE: the lock is released.
CaptureToGLTextureReturn(b) == [b EXCEPT !.bitmapMutex = "free", !.gl = "idle"]

StepBitMapDraw ==
    /\ call.fn = "CaptureBitMap" /\ call.ui = "idle"
    /\ call.capSeq < MaxBufferCaptures
    /\ \E gdi \in {"ok", "noDC"} :
          /\ gdi # "ok" => call.nFail < MaxFailures
          /\ call' = CaptureBitMapDraw(call, gdi)
    /\ UNCHANGED <<wv, eng, queue, sent, ui, host, gh, ctl>>

StepBitMapSize ==
    /\ call.fn = "CaptureBitMap" /\ call.ui = "GetObject"
    /\ call' = CaptureBitMapSize(call)
    /\ UNCHANGED <<wv, eng, queue, sent, ui, host, gh, ctl>>

StepBitMapLock ==
    /\ call.fn = "CaptureBitMap" /\ call.ui = "MutexLock"
    /\ call.bitmapMutex = "free"
    /\ call' = CaptureBitMapLock(call)
    /\ UNCHANGED <<wv, eng, queue, sent, ui, host, gh, ctl>>

StepBitMapCreateDIB ==
    /\ call.fn = "CaptureBitMap" /\ call.ui = "CreateDIBSection"
    /\ \E gdi \in {"ok", "noDIB"} :
          /\ gdi # "ok" => call.nFail < MaxFailures
          /\ call' = CaptureBitMapCreateDIB(call, gdi)
    /\ UNCHANGED <<wv, eng, queue, sent, ui, host, gh, ctl>>

StepBitMapGetDIBits ==
    /\ call.fn = "CaptureBitMap" /\ call.ui = "GetDIBits"
    /\ call' = CaptureBitMapGetDIBits(call)
    /\ UNCHANGED <<wv, eng, queue, sent, ui, host, gh, ctl>>

StepWebViewStamp ==
    /\ call.fn = "CaptureBitMap" /\ call.ui = "Stamp"
    /\ \E dt \in Ticks : call' = CaptureWebViewStamp(call, dt)
    /\ UNCHANGED <<wv, eng, queue, sent, ui, host, gh, ctl>>

\* setFrameSize: MoveWindow on the host thread; the UI thread handles the
\* size change between two messages of its loop.
MoveWindow ==
    /\ call.fn = "CaptureBitMap" /\ call.ui = "idle"
    /\ call.nResize < MaxResizes
    /\ \E size \in ClientSizes \ {call.client} :
          call' = [call EXCEPT !.client = size, !.nResize = @ + 1]
    /\ UNCHANGED <<wv, eng, queue, sent, ui, host, gh, ctl>>

StepGLTextureLock ==
    /\ call.fn = "CaptureBitMap" /\ call.gl = "idle"
    /\ call.bitmapMutex = "free"
    /\ call' = CaptureToGLTextureLock(call)
    /\ UNCHANGED <<wv, eng, queue, sent, ui, host, gh, ctl>>

StepGLTextureUpload ==
    /\ call.fn = "CaptureBitMap" /\ call.gl = "test"
    /\ call' = CaptureToGLTextureUpload(call)
    /\ UNCHANGED <<wv, eng, queue, sent, ui, host, gh, ctl>>

StepGLTextureFree ==
    /\ call.fn = "CaptureBitMap" /\ call.gl = "free"
    /\ call' = CaptureToGLTextureFree(call)
    /\ UNCHANGED <<wv, eng, queue, sent, ui, host, gh, ctl>>

StepGLTextureReturn ==
    /\ call.fn = "CaptureBitMap" /\ call.gl = "return"
    /\ call' = CaptureToGLTextureReturn(call)
    /\ UNCHANGED <<wv, eng, queue, sent, ui, host, gh, ctl>>

\* The buffer after the constructor; stored and uploaded are history: the
\* last capture whose bitmap was stored, the last one whose bitmap was read.
InitBuffer ==
    /\ InitInstance([posts |-> 0, events |-> 0, fails |-> 0])
    /\ ctl = NoControl
    /\ \E size \in ClientSizes :
          call = [fn |-> "CaptureBitMap",
                  captureBits |-> NoPixels, captureWidth |-> 0, captureHeight |-> 0,
                  updateTime |-> 0, bitmapMutex |-> "free",
                  client |-> size, captureBmp |-> size,
                  ui |-> "idle", gl |-> "idle",
                  upload |-> [bits |-> NoPixels, width |-> 0, height |-> 0],
                  capSeq |-> 0, nFail |-> 0, nResize |-> 0,
                  stored |-> 0, uploaded |-> 0]

NextBuffer ==
    \/ StepBitMapDraw \/ StepBitMapSize \/ StepBitMapLock
    \/ StepBitMapCreateDIB \/ StepBitMapGetDIBits \/ StepWebViewStamp
    \/ MoveWindow
    \/ StepGLTextureLock \/ StepGLTextureUpload \/ StepGLTextureFree
    \/ StepGLTextureReturn

SpecBuffer == InitBuffer /\ [][NextBuffer]_vars

\* The consumer holds the bitmap mutex and is about to read the buffer.
ConsumerReads ==
    call.fn = "CaptureBitMap" /\ call.bitmapMutex = "consumer" /\ call.gl = "test"

C27_SizeMatchesPixels ==
    (/\ call.fn = "CaptureBitMap" /\ call.bitmapMutex = "consumer"
     /\ call.captureBits # NoPixels) =>
        /\ call.captureWidth = call.captureBits.w
        /\ call.captureHeight = call.captureBits.h

\* C28: every write by the browser UI thread to a field of the capture buffer
\* (width, height, bytes, update time) happens while it holds the bitmap mutex.
C28_WritesUnderMutex ==
    [][(/\ call.fn = "CaptureBitMap" /\ call'.ui # call.ui
        /\ <<call'.captureBits, call'.captureWidth, call'.captureHeight,
             call'.updateTime>>
               # <<call.captureBits, call.captureWidth, call.captureHeight,
                    call.updateTime>>)
          => call.bitmapMutex = "ui"]_vars

-----------------------------------------------------------------------------
(* AWTEventSupport.cpp: the key code and the extended-key bit of the message
   posted for a key event. *)

\* The key codes of the events: letters, a modifier, the Windows key (whose
\* virtual key depends on the location), an editing key, a function key,
\* and the undefined key code, which the translation leaves at 0.
TranslatedKeys == {"VK_A", "VK_Z", "VK_CONTROL", "VK_WINDOWS", "VK_DELETE", "VK_F1"}
KeyEventIds == {"KEY_PRESSED", "KEY_TYPED", "KEY_RELEASED"}

\* The virtual-key codes of Windows for these keys (winuser.h).
VirtualKey(keyCode, location) ==
    CASE keyCode = "VK_A" -> 65
      [] keyCode = "VK_Z" -> 90
      [] keyCode = "VK_CONTROL" -> 17
      [] keyCode = "VK_WINDOWS" /\ location = "KEY_LOCATION_RIGHT" -> 92
      [] keyCode = "VK_WINDOWS" -> 91
      [] keyCode = "VK_DELETE" -> 46
      [] keyCode = "VK_F1" -> 112
      [] OTHER -> 0

\* sendEvent with a key event: PostMsgFromAWTEvent calls
\* PostKeyMsgFromAWTKeyEvent.
PostMsgFromAWTKeyEvent ==
    /\ call.fn = "PostKeyMsgFromAWTKeyEvent" /\ call.pc = "call"
    /\ call' = [call EXCEPT !.posted = PostKeyMsgFromAWTKeyEvent(call.event),
                            !.pc = "posted"]
    /\ UNCHANGED <<wv, eng, queue, sent, ui, host, gh, ctl>>

\* The host makes the next key event.
NextKeyEvent ==
    /\ call.fn = "PostKeyMsgFromAWTKeyEvent" /\ call.pc = "posted"
    /\ \E id \in KeyEventIds, keyCode \in TranslatedKeys \cup {"VK_UNDEFINED"},
          location \in AWTKeyLocations :
          call' = [call EXCEPT
                      !.event = [id |-> id, keyCode |-> keyCode, location |-> location],
                      !.posted = <<>>, !.pc = "call"]
    /\ UNCHANGED <<wv, eng, queue, sent, ui, host, gh, ctl>>

InitKeyCodes ==
    /\ InitInstance([posts |-> 0, events |-> 0, fails |-> 0])
    /\ ctl = NoControl
    /\ call = [fn |-> "PostKeyMsgFromAWTKeyEvent", pc |-> "posted", posted |-> <<>>,
               event |-> [id |-> "KEY_TYPED", keyCode |-> "VK_UNDEFINED",
                          location |-> "KEY_LOCATION_UNKNOWN"]]

NextKeyCodes == PostMsgFromAWTKeyEvent \/ NextKeyEvent

SpecKeyCodes == InitKeyCodes /\ [][NextKeyCodes]_vars

\* A key event with a translated key code has been posted.
KeyMessagePosted ==
    /\ call.fn = "PostKeyMsgFromAWTKeyEvent" /\ call.pc = "posted"
    /\ call.event.keyCode \in TranslatedKeys
    /\ call.event.id \in {"KEY_PRESSED", "KEY_RELEASED"}

\* C25: the message posted for a key event with a translated key code carries
\* the virtual-key code of that key, and its extended-key bit is set exactly
\* when the location of the key is the right-hand one.
C25_KeyCodeAndExtendedBit ==
    KeyMessagePosted =>
        /\ Len(call.posted) = 1
        /\ call.posted[1].message
               = (IF call.event.id = "KEY_PRESSED" THEN WM_KEYDOWN ELSE WM_KEYUP)
        /\ call.posted[1].wParam
               = VirtualKey(call.event.keyCode, call.event.location)
        /\ HasBit(call.posted[1].lParam, EXTENDED_KEY)
               <=> (call.event.location = "KEY_LOCATION_RIGHT")

\* The release of the right Windows key has been posted, with the extended
\* bit among the bits of a WM_KEYUP.
C25_Witness ==
    /\ KeyMessagePosted
    /\ call.event = [id |-> "KEY_RELEASED", keyCode |-> "VK_WINDOWS",
                     location |-> "KEY_LOCATION_RIGHT"]
    /\ call.posted[1].wParam = 92
    /\ HasBit(call.posted[1].lParam, EXTENDED_KEY)
    /\ HasBit(call.posted[1].lParam, TRANSITION_STATE_BIT)

-----------------------------------------------------------------------------
(* The capture messages in the queue *)

\* The capture messages pending in a queue.
PendingCaptures(q) == {i \in 1..Len(q) : q[i].message = WM_WEBVIEW_CAPTURE}

\* C26: captures are coalesced: at most one capture message of the instance
\* is pending in the queue at any time, and a capture request made while one
\* is queued posts nothing.
C26_CapturesAreCoalesced ==
    /\ Cardinality(PendingCaptures(queue)) <= 1
    /\ PendingCaptures(queue) # {} => ScheduleCapture(Cur).q = queue

\* A capture message is queued while the view has changed again, behind a
\* host message that will be followed by a capture request.
C26_Witness ==
    /\ Cardinality(PendingCaptures(queue)) = 1
    /\ wv.needToCapture /\ wv.captureScheduled
    /\ Len(queue) >= 2

-----------------------------------------------------------------------------
(* The pump of a live instance that has loaded its page, WebViewControl.cpp:
   RunWebViewMessageLoop takes the message that GetMessage selects, dispatches
   it and sends WM_WEBVIEW_UPDATE, for ever. *)

\* Host calls of one run of the pump.
MaxPumpPosts == 3

\* The pages the instance shows: plain content, or content with EMBED tags,
\* for which OnDocumentComplete sets alwaysCapture.
PumpPages == {"h1", "embedded"}

\* What a pump that captures for ever does not keep: the ordinals of the
\* captures, and of the tick count of the time stamp all but the lowest bit.
ForgetCaptureHistory(S) ==
    [S EXCEPT !.gh.capSeq = 0, !.gh.stampCap = 0, !.wv.updateTime = @ % 2,
              !.wv.captureBits.cap = 0]

\* The loop dequeues a capture message, OnCapture runs CaptureWebView and
\* clears captureScheduled, and the loop sends WM_WEBVIEW_UPDATE.
PumpCaptureAndUpdate ==
    /\ ui.stack = <<>> /\ sent.message = 0
    /\ GetMessage(queue) # 0
    /\ LET i == GetMessage(queue)
           m == queue[i]
           S == [Cur EXCEPT !.q = RemoveAt(queue, i)]
       IN  /\ m.message = WM_WEBVIEW_CAPTURE
           /\ \E dt \in Ticks :
                 Commit(ForgetCaptureHistory(
                     Update([CaptureWebView(S, "ok", dt)
                                 EXCEPT !.wv.captureScheduled = FALSE])))
    /\ UNCHANGED <<sent, ui, host, ctl, call>>

\* The instance after the document of its page has completed and the loop has
\* sent the WM_WEBVIEW_UPDATE that follows: a capture message is queued.
InitPump ==
    /\ \E page \in PumpPages :
          /\ wv = [needToCapture |-> FALSE,
                   alwaysCapture |-> ContainsEmbeddedContent(page),
                   captureScheduled |-> TRUE, captureBits |-> NoBits, updateTime |-> 0,
                   resourceResolver |-> NULL, adviseSink |-> NULL,
                   htmlContent |-> NoMoniker, originalContentLoaded |-> FALSE,
                   browserInitialized |-> TRUE,
                   contentLoadID |-> 0, contentMetadataUpdateID |-> 0,
                   contentWidth |-> 0, contentHeight |-> 0, contentURL |-> NULL,
                   minContentWidth |-> DEFAULT_MIN_CONTENT_WIDTH,
                   minContentHeight |-> DEFAULT_MIN_CONTENT_HEIGHT,
                   savedTravelLog |-> <<>>, mustClearTravelLog |-> FALSE,
                   backgroundColor |-> NULL, lastInputPoint |-> 0,
                   links |-> [doc |-> NULL, resolver |-> NULL]]
          /\ eng = [cur |-> Doc(page, DEFAULT_BASE_URL), pending |-> NoDoc,
                    kind |-> NULL, back |-> <<>>, fwd |-> <<>>, log |-> NULL]
    /\ queue = <<Msg(WM_WEBVIEW_CAPTURE, NULL, 0)>>
    /\ sent = NoMsg
    /\ ui = [stack |-> <<>>, inCallback |-> FALSE]
    /\ host = [pc |-> "run", seenTime |-> 0, stampSeen |-> 0, fresh |-> FALSE,
               tex |-> NoBits, texFor |-> 0]
    /\ gh = [lim |-> [posts |-> MaxPumpPosts, events |-> MaxEvents, fails |-> 0],
             nPosts |-> 0, nEvents |-> 0, seq |-> 0, capSeq |-> 0,
             nFail |-> 0, nReads |-> 0, stampCap |-> 0, loadDone |-> NULL,
             away |-> FALSE, snap |-> NoSnap, reloaded |-> FALSE]
    /\ ctl = NoControl /\ call = NoCall

NextPump ==
    \/ PumpMessage \/ PumpCaptureAndUpdate
    \/ ViewChange \/ setMinContentSize \/ sendEvent

\* The message loop does not stop: a message that GetMessage selects is
\* dispatched.
SpecPump ==
    InitPump /\ [][NextPump]_vars
    /\ WF_vars(PumpMessage) /\ WF_vars(PumpCaptureAndUpdate)

\* The n-th message the host posted is in the queue.
Queued(n) == \E i \in 1..Len(queue) : queue[i].seq = n

\* C29: every message the host posts to the live instance is eventually
\* handled while the pump runs, a setMinContentSize message too, also when the
\* instance is in always-capture mode and re-schedules a capture after every
\* capture.
C29_PostedMessageIsHandled ==
    \A n \in 1..MaxPumpPosts : Queued(n) ~> ~Queued(n)

-----------------------------------------------------------------------------
(* The content-load counter *)

\* C30: every content load of the host (setHtml) whose top-level frame
\* finishes loading increments contentLoadID, so that the content size and
\* URL are determined again; also a load that was handled before the blank
\* navigation of the creation has completed.
C30_ContentLoadIncrementsCounter ==
    [][(StepDocumentCompleteEnd /\ gh.loadDone \in Htmls)
          => wv'.contentLoadID = wv.contentLoadID + 1]_vars

-----------------------------------------------------------------------------
(* The content size and the metadata mutex, WebViewWindow.cpp: the fields
   contentWidth and contentHeight, written by the browser UI thread in
   DetermineContentSize and read by a host thread in GetContentSize, one step
   per access. *)

\* Determinations of the content size in one run, and reads by the host.
MaxDeterminations == 2
MaxSizeReads == 2

\* The scroll width and height the document reports at a determination.
ScrollSizes == {[w |-> 100, h |-> 100], [w |-> 400, h |-> 300]}

\* CaptureWebView finds new content and calls DetermineContentSize, which
\* resizes the window and asks the document for its scroll size.
DetermineContentSizeBegin(b, scroll) ==
    [b EXCEPT !.scroll = scroll, !.nDet = @ + 1, !.ui = "contentWidth"]

\* DetermineContentSizeStandardsMode (or CompatibilityMode):
\* this->contentWidth = scrollWidth;
DetermineContentSizeWidth(b) ==
    [b EXCEPT !.contentWidth = b.scroll.w, !.ui = "contentHeight"]

\* this->contentHeight = scrollHeight;
DetermineContentSizeHeight(b) ==
    [b EXCEPT !.contentHeight = b.scroll.h, !.ui = "verticalScrollbar"]

\* this->contentWidth += verticalScrollbarSize;
DetermineContentSizeVScroll(b) ==
    [b EXCEPT !.contentWidth = @ + ScrollbarSize, !.ui = "horizontalScrollbar"]

\* this->contentHeight += horizontalScrollbarSize; return S_OK;
DetermineContentSizeHScroll(b) ==
    [b EXCEPT !.contentHeight = @ + ScrollbarSize, !.ui = "idle",
              !.determined = @ \cup {<<b.scroll.w + ScrollbarSize,
                                       b.scroll.h + ScrollbarSize>>}]

\* GetContentSize: MutexLock lock(this->mutex), once the mutex is free.
GetContentSizeLock(b) ==
    [b EXCEPT !.mutex = "host", !.nReads = @ + 1, !.host = "width"]

\* *width = this->contentWidth;
GetContentSizeWidth(b) == [b EXCEPT !.got[1] = b.contentWidth, !.host = "height"]

\* *height = this->contentHeight; and the lock is released on return.
GetContentSizeHeight(b) ==
    [b EXCEPT !.got[2] = b.contentHeight, !.mutex = "free", !.host = "idle"]

StepDetermineBegin ==
    /\ call.fn = "DetermineContentSize" /\ call.ui = "idle"
    /\ call.nDet < MaxDeterminations
    /\ \E scroll \in ScrollSizes : call' = DetermineContentSizeBegin(call, scroll)
    /\ UNCHANGED <<wv, eng, queue, sent, ui, host, gh, ctl>>

StepDetermineWidth ==
    /\ call.fn = "DetermineContentSize" /\ call.ui = "contentWidth"
    /\ call' = DetermineContentSizeWidth(call)
    /\ UNCHANGED <<wv, eng, queue, sent, ui, host, gh, ctl>>

StepDetermineHeight ==
    /\ call.fn = "DetermineContentSize" /\ call.ui = "contentHeight"
    /\ call' = DetermineContentSizeHeight(call)
    /\ UNCHANGED <<wv, eng, queue, sent, ui, host, gh, ctl>>

StepDetermineVScroll ==
    /\ call.fn = "DetermineContentSize" /\ call.ui = "verticalScrollbar"
    /\ call' = DetermineContentSizeVScroll(call)
    /\ UNCHANGED <<wv, eng, queue, sent, ui, host, gh, ctl>>

StepDetermineHScroll ==
    /\ call.fn = "DetermineContentSize" /\ call.ui = "horizontalScrollbar"
    /\ call' = DetermineContentSizeHScroll(call)
    /\ UNCHANGED <<wv, eng, queue, sent, ui, host, gh, ctl>>

StepGetContentSizeLock ==
    /\ call.fn = "DetermineContentSize" /\ call.host = "idle"
    /\ call.mutex = "free" /\ call.nReads < MaxSizeReads
    /\ call' = GetContentSizeLock(call)
    /\ UNCHANGED <<wv, eng, queue, sent, ui, host, gh, ctl>>

StepGetContentSizeWidth ==
    /\ call.fn = "DetermineContentSize" /\ call.host = "width"
    /\ call' = GetContentSizeWidth(call)
    /\ UNCHANGED <<wv, eng, queue, sent, ui, host, gh, ctl>>

StepGetContentSizeHeight ==
    /\ call.fn = "DetermineContentSize" /\ call.host = "height"
    /\ call' = GetContentSizeHeight(call)
    /\ UNCHANGED <<wv, eng, queue, sent, ui, host, gh, ctl>>

\* The fields after the constructor; determined is history: the sizes that
\* completed determinations have produced, and the initial size.
InitContentSize ==
    /\ InitInstance([posts |-> 0, events |-> 0, fails |-> 0])
    /\ ctl = NoControl
    /\ call = [fn |-> "DetermineContentSize",
               contentWidth |-> 0, contentHeight |-> 0, mutex |-> "free",
               scroll |-> [w |-> 0, h |-> 0], ui |-> "idle", host |-> "idle",
               got |-> <<0, 0>>, nDet |-> 0, nReads |-> 0,
               determined |-> {<<0, 0>>}]

NextContentSize ==
    \/ StepDetermineBegin \/ StepDetermineWidth \/ StepDetermineHeight
    \/ StepDetermineVScroll \/ StepDetermineHScroll
    \/ StepGetContentSizeLock \/ StepGetContentSizeWidth
    \/ StepGetContentSizeHeight

SpecContentSize == InitContentSize /\ [][NextContentSize]_vars

\* C31: the content size is written only while the metadata mutex is held,
\* so getContentSize never returns an intermediate or torn value: what it
\* returns is the size a completed determination produced (width and height
\* of the same determination, scrollbar thickness added to both).
C31_ContentSizeNeverTorn ==
    /\ (call.fn = "DetermineContentSize" /\ call.host = "idle")
           => \/ call.got \in call.determined
              \/ \E scroll \in ScrollSizes :
                     call.got = <<scroll.w + ScrollbarSize, scroll.h + ScrollbarSize>>
    /\ (call.fn = "DetermineContentSize"
        /\ call.ui \in {"contentHeight", "verticalScrollbar", "horizontalScrollbar"})
           => call.mutex = "ui"

-----------------------------------------------------------------------------
(* The dirty flag, the capture-scheduled flag and the capture message, on a  *)
(* UI thread whose message queue can fill up.                                *)

MaxSchedulePosts == 3
MaxScheduleEvents == 2
\* The limit of the queue, scaled down from MessageQueueLimit.
MaxScheduleQueue == 2

\* IAdviseSink::OnViewChange, called by the control while the loop dispatches
\* one of the control's own messages; WM_WEBVIEW_UPDATE follows the dispatch.
ViewChanged ==
    /\ ui.stack = <<>> /\ sent.message = 0
    /\ wv.browserInitialized /\ gh.nEvents < gh.lim.events
    /\ Commit(OnViewChange([Cur EXCEPT !.gh.nEvents = @ + 1]))
    /\ ui' = [ui EXCEPT !.stack = <<"Update">>]
    /\ UNCHANGED <<sent, host, ctl, call>>

InitSchedule ==
    InitState([posts |-> MaxSchedulePosts, events |-> MaxScheduleEvents,
               fails |-> 0, queue |-> MaxScheduleQueue])

\* The steps of the UI thread.
UIThreadStep ==
    \/ PumpMessage \/ PumpCapture
    \/ StepCaptureBitMap \/ StepCaptureStamp \/ StepCaptureReturn \/ StepOnCapture
    \/ DocumentComplete \/ StepDocumentCompleteEnd \/ StepUpdate

NextSchedule ==
    \/ PumpMessage \/ PumpCapture
    \/ StepCaptureBitMap \/ StepCaptureStamp \/ StepCaptureReturn \/ StepOnCapture
    \/ DocumentComplete \/ StepDocumentCompleteEnd \/ StepUpdate
    \/ ViewChanged \/ sendEvent \/ setMinContentSize

\* The loop keeps running: a step of the UI thread that can be taken is taken.
SpecSchedule == InitSchedule /\ [][NextSchedule]_vars /\ WF_vars(UIThreadStep)

\* C32: whenever the dirty flag is set, by the view-changed callback or by a
\* load completion, a capture of the instance runs afterwards, with no
\* further message from the host.
C32_DirtyFlagLeadsToCapture ==
    \A n \in 0..(MaxSchedulePosts + MaxScheduleEvents + 3) :
        (wv.needToCapture /\ gh.capSeq = n) ~> (gh.capSeq > n)

\* C34: the capture-scheduled flag is set exactly when a capture message of
\* the instance is pending: in the queue, or taken from it and being handled
\* by OnCapture, which resets the flag when it returns.
C34_ScheduledIffCapturePending ==
    wv.captureScheduled
        <=> \/ PendingCaptures(queue) # {}
            \/ (ui.stack # <<>> /\ ui.stack[Len(ui.stack)] = "OnCapture")

-----------------------------------------------------------------------------
(* Two host threads that each set the content of the same instance:          *)
(* setHTMLStringWithResourceResolver and setHTMLString, WindowsWebViewJNI.cpp *)

HostThreads == {"t1", "t2"}
MaxResolverEvents == 1

\* What each thread loads: t1 content with a resolver, t2 content without.
LoadRequests ==
    [t \in HostThreads |->
        IF t = "t1" THEN [html |-> "h1", resolver |-> "r1", base |-> WebViewBaseUrl]
        ELSE [html |-> "h2", resolver |-> NULL, base |-> DEFAULT_BASE_URL]]

\* The resolver that was requested together with the content.
ResolverOfLoad(html) ==
    LoadRequests[CHOOSE t \in HostThreads : LoadRequests[t].html = html].resolver

\* The first PostMessage of the JNI function: the resolver.
PostResolver(t) ==
    /\ call.pc[t] = "start"
    /\ Commit(PostAll(Cur, << <<WM_WEBVIEW_SET_RESOURCE_RESOLVER,
                                LoadRequests[t].resolver>> >>))
    /\ call' = [call EXCEPT !.pc[t] = "SetHTMLString"]
    /\ UNCHANGED <<sent, ui, host, ctl>>

\* SetHTMLString: the second PostMessage, the moniker of the content.
PostHtml(t) ==
    /\ call.pc[t] = "SetHTMLString"
    /\ Commit(PostAll(Cur, << <<WM_SET_HTML, Moniker(LoadRequests[t].html,
                                                    LoadRequests[t].base)>> >>))
    /\ call' = [call EXCEPT !.pc[t] = "done"]
    /\ UNCHANGED <<sent, ui, host, ctl>>

\* WebViewProtocol::ParseUrl for a URL of the reserved scheme that the control
\* meets in a document whose base is the instance's: the resolver the instance
\* holds at that moment resolves it.
ProtocolLookup ==
    /\ \E d \in {eng.cur, eng.pending} :
          /\ d.loc = WebViewBaseUrl
          /\ call' = [call EXCEPT !.lookup = [doc |-> d.doc,
                                              resolver |-> wv.resourceResolver]]
    /\ UNCHANGED <<wv, eng, queue, sent, ui, host, gh, ctl>>

InitResolver ==
    /\ InitInstance([posts |-> 0, events |-> MaxResolverEvents, fails |-> 0])
    /\ ctl = NoControl
    /\ call = [fn |-> "setHTMLString", pc |-> [t \in HostThreads |-> "start"],
               lookup |-> [doc |-> NULL, resolver |-> NULL]]

NextResolver ==
    \/ PumpMessage \/ PumpCapture
    \/ StepCaptureBitMap \/ StepCaptureStamp \/ StepCaptureReturn \/ StepOnCapture
    \/ DocumentComplete \/ StepDocumentCompleteEnd \/ StepUpdate
    \/ ViewChanged \/ ProtocolLookup
    \/ \E t \in HostThreads : PostResolver(t) \/ PostHtml(t)

SpecResolver == InitResolver /\ [][NextResolver]_vars

\* C33: link extraction and the lookup of the reserved scheme see the content
\* and the resolver of the same load: the links of a capture of loaded content,
\* and every URL lookup for that content, use the resolver that was requested
\* with it.
C33_ResolverMatchesContent ==
    /\ wv.links.doc \in Htmls
           => wv.links.resolver = ResolverOfLoad(wv.links.doc)
    /\ (call.fn = "setHTMLString" /\ call.lookup.doc \in Htmls)
           => call.lookup.resolver = ResolverOfLoad(call.lookup.doc)

-----------------------------------------------------------------------------
(* The live set of the controller and the references it releases *)

\* C35: every instance whose handle create returned is in the live set of the
\* controller until the controller destroys it (and so is ticked, and closed
\* and released at shutdown), whenever the create request is handled.
C35_CreatedInstanceIsLive ==
    ctl.pc # "single" =>
        \A id \in 1..Len(ctl.inst) :
            ctl.inst[id].released \/ id \in ctl.webViewWindows

-----------------------------------------------------------------------------
(* Properties of the saved navigation list and of the flags of the history *)

MaxClearPosts == 3
MaxClearEvents == 2

InitClear ==
    InitState([posts |-> MaxClearPosts, events |-> MaxClearEvents, fails |-> 0])

SpecClear == InitClear /\ [][NextNav]_vars

\* The must-clear flag is set, and the goBack that set it got the original
\* content loading again.
FlagSetByReload == wv.mustClearTravelLog /\ gh.reloaded

\* C37: once a goBack that reloaded the original content has set the
\* must-clear flag, the flag stays set until a goForward is handled or a load
\* of content other than the original completes; a goForward that is handled
\* resets the flag and leaves the saved entries in the travel list of the
\* control; otherwise the first completed load of content other than the
\* original empties the travel list and resets the flag.
C37_FirstOtherLoadClearsTravelLog ==
    [][/\ (FlagSetByReload /\ PumpMessage /\ NextMessage.message = WM_GO_FORWARD)
              => (/\ ~wv'.mustClearTravelLog
                  /\ EnumEntries(Cur') = wv.savedTravelLog)
       /\ (FlagSetByReload /\ StepDocumentCompleteEnd /\ gh.loadDone = NULL)
              => (/\ ~wv'.mustClearTravelLog
                  /\ EnumEntries(Cur') = <<>>)
       /\ (FlagSetByReload /\ ~wv'.mustClearTravelLog)
              => \/ PumpMessage /\ NextMessage.message = WM_GO_FORWARD
                 \/ StepDocumentCompleteEnd /\ gh.loadDone = NULL]_vars

\* C39: the original-content-loaded flag is raised only by a step that gets
\* the content source of the instance loading in the control, and it is never
\* set on an instance that holds no content source.
C39_OriginalLoadedOnlyWithAcceptedContent ==
    /\ [](wv.originalContentLoaded => wv.htmlContent # NoMoniker)
    /\ [][(~wv.originalContentLoaded /\ wv'.originalContentLoaded)
              => (/\ eng'.kind = "moniker"
                  /\ eng'.pending = Doc(wv'.htmlContent.html, wv'.htmlContent.base))]_vars

\* ------------------------------------------------------------------------
\* Scroll bar input: the button, move and timer cases of OnSimulateInput and
\* OnTimer.  The instance's scroll fields are the fields of call; refs counts
\* the references to each element that the window has taken with
\* QueryInterface and not given back with Release; pressed is the set of
\* mouse buttons the host holds down (by their button-down message).
\* ------------------------------------------------------------------------
WM_TIMER == 275
SCROLL_TIMER_ID == 2
SCROLLBAR_VERTICAL == "gov.nasa.worldwind.webview.Vertical"
SCROLLBAR_HORIZONTAL == "gov.nasa.worldwind.webview.Horizontal"
SCROLLBAR_EXTERNAL == "gov.nasa.worldwind.webview.ScrollBarExternal"

MaxScrollInputs == 4
MaxAutoScrolls == 2

ScrollElements == {"body", "div"}
ButtonDowns == {WM_LBUTTONDOWN, WM_RBUTTONDOWN, WM_MBUTTONDOWN}
ButtonUps == {WM_LBUTTONUP, WM_RBUTTONUP, WM_MBUTTONUP}
ButtonUpOf(down) == down + 1

\* What componentFromPoint answers for the point of the message; NULL when
\* GetComponentAtPoint found no document or no element.
ComponentsAtPoint ==
    {NULL, "", "outside", "scrollbarDown", "scrollbarPageUp",
     "scrollbarHThumb", "scrollbarVThumb"}

IsScrollComponent(c) ==
    c \in {"scrollbarDown", "scrollbarPageUp", "scrollbarHThumb", "scrollbarVThumb"}

\* A button-down message is handled.  On a scroll component the element at
\* the point is the element whose component was found, so it is not NULL.
SimButtonDown ==
    /\ call.fn = "OnSimulateInput" /\ call.nInputs < MaxScrollInputs
    /\ \E uMsg \in ButtonDowns \ call.pressed :
       \E c \in ComponentsAtPoint :
       \E hr \in {"S_OK", "E_FAIL"} :
       \E e \in ScrollElements :
       \E timerSet \in BOOLEAN :
          LET in == [call EXCEPT !.pressed = @ \cup {uMsg},
                                 !.nInputs = @ + 1,
                                 !.last = uMsg]
          IN  call' =
                IF IsScrollComponent(c)
                THEN IF hr # "S_OK"
                     THEN [in EXCEPT !.isScrolling = TRUE, !.targetHwnd = NULL]
                     ELSE LET el == [in EXCEPT !.isScrolling = TRUE,
                                               !.scrollElement = e,
                                               !.refs[e] = @ + 1,
                                               !.targetHwnd = "hWndUnderCursor"]
                          IN  IF c = "scrollbarHThumb"
                              THEN [el EXCEPT !.activeScroller = SCROLLBAR_HORIZONTAL]
                              ELSE IF c = "scrollbarVThumb"
                              THEN [el EXCEPT !.activeScroller = SCROLLBAR_VERTICAL]
                              ELSE [el EXCEPT !.timer = @ \/ timerSet,
                                              !.armed = TRUE]
                ELSE IF c = "outside"
                THEN [in EXCEPT !.activeScroller = SCROLLBAR_EXTERNAL,
                                !.targetHwnd = "hWndUnderCursor"]
                ELSE [in EXCEPT !.targetHwnd = "hWndUnderCursor"]
    /\ UNCHANGED <<wv, eng, queue, sent, ui, host, gh, ctl>>

\* A button-up message is handled.
SimButtonUp ==
    /\ call.fn = "OnSimulateInput"
    /\ \E down \in call.pressed :
          LET in == [call EXCEPT !.pressed = @ \ {down},
                                 !.last = ButtonUpOf(down),
                                 !.armed = FALSE]
          IN  call' =
                IF in.isScrolling
                THEN [in EXCEPT !.isScrolling = FALSE,
                                !.refs = IF in.scrollElement # NULL
                                         THEN [@ EXCEPT ![in.scrollElement] = @ - 1]
                                         ELSE @,
                                !.scrollElement = NULL,
                                !.activeScroller = NULL,
                                !.timer = FALSE,
                                !.targetHwnd = NULL]
                ELSE IF in.activeScroller = SCROLLBAR_EXTERNAL
                THEN [in EXCEPT !.targetHwnd = "hWndScrollControl",
                                !.activeScroller = NULL]
                ELSE [in EXCEPT !.targetHwnd = "hWndUnderCursor"]
    /\ UNCHANGED <<wv, eng, queue, sent, ui, host, gh, ctl>>

\* A mouse-move message is handled.
SimMouseMove ==
    /\ call.fn = "OnSimulateInput"
    /\ call' = [call EXCEPT
                  !.last = WM_MOUSEMOVE,
                  !.targetHwnd =
                      IF call.isScrolling /\ call.scrollElement # NULL THEN NULL
                      ELSE IF call.activeScroller = SCROLLBAR_EXTERNAL
                           THEN "hWndScrollControl"
                           ELSE "hWndUnderCursor"]
    /\ UNCHANGED <<wv, eng, queue, sent, ui, host, gh, ctl>>

\* The scroll timer fires: OnTimer(SCROLL_TIMER_ID) calls AutoScroll, which
\* scrolls the held element by the component under the last input point.
ScrollTimer ==
    /\ call.fn = "OnSimulateInput" /\ call.timer
    /\ call.scrolls < MaxAutoScrolls
    /\ call' = [call EXCEPT !.last = WM_TIMER,
                            !.timerId = SCROLL_TIMER_ID,
                            !.scrolls = IF call.scrollElement # NULL
                                        THEN @ + 1 ELSE @]
    /\ UNCHANGED <<wv, eng, queue, sent, ui, host, gh, ctl>>

\* The scroll fields after the constructor; last is the message handled
\* last (0 for none) and timerId the timer of the last WM_TIMER; armed is
\* history: a button-down
\* on an arrow or page region has been handled and no button-up since.
InitScroll ==
    /\ InitInstance([posts |-> 0, events |-> 0, fails |-> 0])
    /\ ctl = NoControl
    /\ call = [fn |-> "OnSimulateInput",
               isScrolling |-> FALSE, activeScroller |-> NULL,
               scrollElement |-> NULL, timer |-> FALSE,
               refs |-> [e \in ScrollElements |-> 0],
               targetHwnd |-> NULL, pressed |-> {}, last |-> 0,
               timerId |-> 0, nInputs |-> 0, scrolls |-> 0, armed |-> FALSE]

NextScroll == SimButtonDown \/ SimButtonUp \/ SimMouseMove \/ ScrollTimer

SpecScroll == InitScroll /\ [][NextScroll]_vars

\* C40: the auto-scroll timer runs only between a button-down on a scroll
\* bar arrow or page region and the next button-up; when a button-up message
\* has been handled the timer is stopped, the scrolling flag and the active
\* scroller are cleared, and the window holds no scrolled element and no
\* reference to one.
C40_ButtonUpEndsScrolling ==
    /\ call.fn = "OnSimulateInput" => (call.timer => call.armed)
    /\ (call.fn = "OnSimulateInput" /\ call.last \in ButtonUps)
           => /\ ~call.timer
              /\ ~call.isScrolling
              /\ call.activeScroller = NULL
              /\ call.scrollElement = NULL
              /\ \A e \in ScrollElements : call.refs[e] = 0

====
